---------------------------- MODULE ScopesProofs ----------------------------
(***************************************************************************)
(* Proofs about Scopes, and with it about TaskCancel, for every number of  *)
(* kids, of cancelling threads and of futures and every application.       *)
(***************************************************************************)
EXTENDS Scopes, FiniteSetTheorems, TLAPS

-----------------------------------------------------------------------------
\* The full types.

Places ==
  {"enter", "g_enter", "body", "add", "g_exit", "g_abort", "g_list", "g_kill", "g_clear",
   "g_loop", "g_await", "g_wait", "g_end", "g_uncancel", "g_uncancelled", "g_raise", "g_again",
   "g_recancel", "t_exit", "t_uncancel", "t_end", "after", "last"}

CallbackPCs ==
  {"none", "add", "register", "added", "queued", "abort", "list", "kill", "cancel", "wake", "set",
   "end"}

CancelRecords == [pc : CancelPCs, n : Nat, f : Futs \cup {NoFuture}]
TimeoutRecords ==
  [state : {"created", "entered", "expiring", "expired", "finished"}, handler : {0, 1, 2},
   lock : {NoFuture, Timer}]
GroupRecords ==
  [entered : BOOLEAN, exiting : BOOLEAN, aborting : BOOLEAN, req : BOOLEAN, gone : BOOLEAN,
   members : SUBSET Kids, errors : SUBSET Kids, base : BOOLEAN,
   waiter : GroupFuts \cup {NoFuture}, used : SUBSET GroupFuts]
KidRecords == [st : KidStates, creq : BOOLEAN, cb : CallbackPCs, w : Futs \cup {NoFuture}]

TaskTyped ==
  /\ fstate \in [Futs -> States]
  /\ fevent \in [Futs -> BOOLEAN]
  /\ tstate \in States
  /\ mustCancel \in BOOLEAN
  /\ futWaiter \in Futs \cup {NoFuture}
  /\ numCancels \in Nat
  /\ pc \in TaskPCs
  /\ fut \in Futs \cup {NoFuture}
  /\ loaded \in Nat
  /\ clash \in BOOLEAN
  /\ ca \in [Cancellers -> CancelRecords]

ScopeTyped ==
  /\ app \in Apps
  /\ at \in Places
  /\ exc \in {"none", "cancel", "error", "base", "group", "timeout"}
  /\ awaits \in Nat
  /\ tmo \in TimeoutRecords
  /\ tpc \in [Timers -> {"idle", "armed", "fired", "cancel"}]
  /\ grp \in GroupRecords
  /\ prop \in BOOLEAN
  /\ kid \in [Kids -> KidRecords]
  /\ doomed \in [Kids \cup {Self} -> SUBSET Kids]
  /\ late \in SUBSET Kids
  /\ at = "g_await" => grp.waiter # NoFuture
  /\ \A k \in Kids : kid[k].cb = "set" => kid[k].w # NoFuture

-----------------------------------------------------------------------------
\* The task and the threads that cancel it.

\* _fut_waiter is the future the task is suspended on, and no other.
WaiterIsFut ==
  /\ pc \in {"arm", "parked", "unarm", "ready", "read"} => fut \in Futs
  /\ futWaiter = IF pc \in {"parked", "unarm"} THEN fut ELSE NoFuture
  /\ pc = "unarm" => fevent[fut]
  /\ pc = "uncancel" => loaded > 0

\* An event is set only for a completed future.
EventsFollow == \A f \in Futs : fevent[f] => fstate[f] # "PENDING"

\* The future a cancel is about to complete is the one the task is suspended on, or is
\* done; the one it has found done stays so.
AimIsFut ==
  \A c \in Cancellers :
    /\ ca[c].pc = "cancel"
         => /\ ca[c].f \in Futs
            /\ fstate[ca[c].f] = "PENDING" => pc = "parked" /\ fut = ca[c].f
    /\ ca[c].pc = "deliver" => ca[c].f \in Futs /\ fstate[ca[c].f] # "PENDING"

\* A cancel that is due for a suspended task was meant for an earlier await.
DueIsMissed ==
  pc \in {"parked", "unarm"} /\ mustCancel
    => \E c \in Cancellers : /\ ca[c].pc = "true" /\ ca[c].f \in Futs
                             /\ fstate[ca[c].f] # "PENDING"

TaskInv == TaskTyped /\ WaiterIsFut /\ EventsFollow /\ AimIsFut /\ DueIsMissed

-----------------------------------------------------------------------------
\* The coroutine and its group.

OuterPlaces == {"t_exit", "t_uncancel", "t_end", "after", "last"}
LeavePlaces == {"g_end", "g_uncancel", "g_uncancelled", "g_raise", "g_again", "g_recancel"}

\* Where the coroutine is when the task is inside an await, an uncancel or its end.
PlaceOfPc ==
  /\ pc \in {"arm", "parked", "unarm", "ready", "read", "raise"} => at \in {"body", "g_wait", "last"}
  /\ pc \in {"uncancel", "uncancel_test", "withdraw"} => at \in {"g_uncancelled", "g_recancel", "t_end"}
  /\ pc \in {"settle_result", "settle_error", "settle_cancel", "done"} => at \in {"after", "last"}
  /\ tstate # "PENDING" => pc = "done"

\* A kid is unborn, or in the group, or its callback has taken it out and recorded its error.
KidsHeld ==
  \A k \in Kids :
    /\ kid[k].st = "unborn" <=> kid[k].cb = "none"
    /\ kid[k].st # "unborn" => k \in app.kids
    /\ kid[k].cb \in {"add", "register"} => at = "add"
    /\ k \in grp.members <=> kid[k].cb \in {"register", "added", "queued"}
    /\ kid[k].cb \notin {"none", "add", "register", "added"} => Ended(k)
    /\ kid[k].cb \notin {"none", "add", "register", "added", "queued"} => (Failed(k) => k \in grp.errors)

\* The task adds one kid at a time.
AddsOne ==
  \A k, j \in Kids : {kid[k].cb, kid[j].cb} \subseteq {"add", "register"} => k = j

\* Once the task has found the group empty it stays empty.
GroupStaysEmpty ==
  /\ at \in LeavePlaces \cup OuterPlaces => grp.members = {}
  /\ grp.gone => at \in OuterPlaces

HeldInv  == KidsHeld /\ AddsOne /\ GroupStaysEmpty
GroupInv == PlaceOfPc /\ HeldInv

-----------------------------------------------------------------------------
\* Who cancels the task, and when.

Started(c) == ca[c].pc # "start"
Busy(c)    == ca[c].pc \notin {"start", "true", "false"}

\* The timer's thread cancels the task once, holding the lock of the Timeout.
TimerCancels ==
  /\ \A d \in Timers : tpc[d] = "cancel" => tmo.lock = Timer
  /\ ~(tpc[1] = "cancel" /\ tpc[2] = "cancel")
  /\ tmo.lock = Timer => tmo.state = "expiring"
  /\ Started(Timer) => tmo.state \in {"expiring", "expired"}
  /\ Busy(Timer) => tmo.lock = Timer
  /\ tmo.state \in {"expiring", "expired"} /\ tmo.lock = NoFuture => ca[Timer].pc = "true"
  /\ ca[Timer].pc # "false"
  /\ tmo.state \in {"entered", "expiring"} => at \notin {"t_uncancel", "t_end", "after", "last"}
  /\ tmo.state = "expired" => at \in {"t_uncancel", "t_end", "after", "last"}
  /\ at \in {"t_uncancel", "t_end"} => tmo.state = "expired"
  /\ at = "enter" \/ ~app.timeout <=> tmo.state = "created"
  /\ at \in {"t_exit", "t_uncancel", "t_end"} => app.timeout

\* At most one kid cancels the task: the one whose callback set _parent_cancel_requested.
Chosen(k) == Cancelling(k) \/ Started(k)

KidCancels ==
  /\ ~grp.req => \A k \in Kids : ~Chosen(k)
  /\ grp.req => \E k \in Kids : Chosen(k)
  /\ \A k, j \in Kids : Chosen(k) /\ Chosen(j) => k = j
  /\ \A k \in Kids : /\ Busy(k) => kid[k].cb = "cancel"
                     /\ Started(k) => kid[k].cb \in {"cancel", "wake", "set", "end"}

\* Unless it was late, that kid has cancelled the task before the task leaves the group.
LateCancels ==
  /\ late # {} => at \in LeavePlaces \cup OuterPlaces
  /\ late = {} => \A k \in Kids : /\ ca[k].pc # "false"
                                  /\ at \in LeavePlaces \cup OuterPlaces => ~Cancelling(k)

\* The task takes the cancel of a kid back, unless it leaves for a KeyboardInterrupt.
BaseLeaves ==
  /\ at \in {"g_uncancel", "g_uncancelled"} => grp.req
  /\ at \in LeavePlaces \ {"g_end"} => ~grp.base
  /\ at \in OuterPlaces /\ grp.base => exc = "base"
  /\ app.kids = {} => ~grp.base /\ at \in {"enter", "body"} \cup OuterPlaces

\* The task cancels itself where it leaves the group.
SelfCancels ==
  /\ Started(Self) => (at = "g_recancel" /\ pc = "run") \/ at \in OuterPlaces
  /\ at \in OuterPlaces => ca[Self].pc \in {"start", "true"}
  /\ ca[Self].pc # "false"

CancelInv == TimerCancels /\ KidCancels /\ LateCancels /\ BaseLeaves /\ SelfCancels

-----------------------------------------------------------------------------
\* The count: the cancels from outside, and those of the scopes that are not taken back.

Counting == {"look", "cancel", "deliver", "true"}

TimerTaken == tmo.state = "expired" /\ at # "t_uncancel" /\ ~(at = "t_end" /\ pc = "uncancel")
GroupTaken ==
  grp.req /\ \/ at = "g_uncancelled" /\ pc # "uncancel"
             \/ at \in {"g_raise", "g_again", "g_recancel"}
             \/ at \in OuterPlaces /\ ~grp.base

OfTimer == IF ca[Timer].pc \in Counting /\ ~TimerTaken THEN 1 ELSE 0
OfKids  == IF (\E k \in Kids : ca[k].pc \in Counting) /\ ~GroupTaken THEN 1 ELSE 0
OfSelf  == IF at = "g_recancel" /\ pc # "uncancel" /\ ca[Self].pc \notin Counting THEN 1 ELSE 0

CountIsExact ==
  ~clash /\ late = {} =>
    /\ numCancels + OfSelf = Cardinality(Counted) + OfTimer + OfKids
    /\ at \in {"g_again", "g_recancel"} => Cardinality(Counted) + OfTimer + OfKids > 0
    /\ mustCancel => \/ numCancels > 0 \/ pc \in {"uncancel_test", "withdraw"}
                     \/ at = "g_recancel" /\ ca[Self].pc \in {"start", "count"}

IInv == TaskInv /\ ScopeTyped /\ GroupInv /\ CancelInv /\ CountIsExact
-----------------------------------------------------------------------------
\* The steps, seen from the task and from its scopes.

\* The scopes change the state of the task only through the operations of TaskCancel, by an
\* exception raised again, and by completing the future the group waits for.
Rethrow ==
  /\ pc = "run" /\ pc' = "raise"
  /\ UNCHANGED <<futVars, bodyVars, mustCancel, futWaiter, numCancels, ca>>

SetFuture(f) ==
  /\ fstate' = [fstate EXCEPT ![f] = IF @ = "PENDING" THEN "FINISHED" ELSE @]
  /\ UNCHANGED <<fevent, taskVars, ca>>

TaskMove ==
  \/ \E f \in Futs : Await(f) \/ CompleteFuture(f) \/ WakeFuture(f) \/ SetFuture(f)
  \/ Arm \/ Ready \/ Resume \/ Unarm \/ Read
  \/ Catch \/ Uncancel \/ UncancelStore \/ UncancelTest \/ Withdraw
  \/ Escape \/ Fail \/ Return \/ Settle \/ Rethrow
  \/ \E c \in Cancellers :
       Cancel(c) \/ CancelCount(c) \/ CancelLook(c) \/ CancelFuture(c) \/ CancelDeliver(c)
  \/ UNCHANGED cancelVars

LEMMA StepsAreMoves == ScopeTyped /\ [Next]_vars => TaskMove
<1> SUFFICES ASSUME ScopeTyped, [Next]_vars PROVE TaskMove
  OBVIOUS
<1> USE DEF TaskMove
<1>1. /\ Kids \subseteq Cancellers /\ Timer \in Cancellers /\ Self \in Cancellers
      /\ app.outsiders \subseteq Cancellers
  BY CancellersAssumption, AppsAssumption DEF ScopeTyped
<1>2. CASE TaskStep
  <2>1. CASE (AwaitStep \/ UncancelStep) /\ UNCHANGED scopeVars
    BY <2>1 DEF AwaitStep, UncancelStep
  <2>2. CASE Enter \/ GroupEnter \/ TimeoutExit \/ TimeoutEnd
    BY <2>2 DEF Enter, GroupEnter, TimeoutExit, TimeoutEnd
  <2>3. CASE TimeoutUncancel
    BY <2>3 DEF TimeoutUncancel, CallUncancel
  <2>4. CASE Reraise
    BY <2>4 DEF Reraise, At, Rethrow
  <2>5. CASE EndOfTask
    BY <2>5 DEF EndOfTask
  <2>6. CASE \E k \in Kids : AddMember(k) \/ AddCallback(k)
    BY <2>6 DEF AddMember, AddCallback
  <2>7. CASE GroupStep
    <3>1. CASE GroupExit \/ GroupAbort \/ GroupLoop \/ GroupClear \/ GroupEnd
      BY <3>1 DEF GroupExit, GroupAbort, GroupLoop, GroupClear, GroupEnd
    <3>2. CASE GroupUncancelled \/ GroupRaise \/ GroupRecancelled
      BY <3>2 DEF GroupUncancelled, GroupRaise, GroupRecancelled
    <3>3. CASE GroupUncancel \/ GroupAgain
      BY <3>3 DEF GroupUncancel, GroupAgain, CallUncancel
    <3>4. CASE GroupRecancel
      BY <1>1, <3>4 DEF GroupRecancel
    <3>5. CASE GroupWoken
      BY <3>5 DEF GroupWoken
    <3>6. CASE GroupAwait
      <4>1. grp.waiter \in Futs
        BY <3>6 DEF GroupAwait, ScopeTyped, GroupRecords, GroupFuts, At
      <4> QED
        BY <3>6, <4>1 DEF GroupAwait
    <3> QED
      BY <2>7, <3>1, <3>2, <3>3, <3>4, <3>5, <3>6 DEF GroupStep
  <2> QED
    BY <1>2, <2>1, <2>2, <2>3, <2>4, <2>5, <2>6, <2>7 DEF TaskStep
<1>3. CASE BodyStep
  <2>1. Body \in Futs /\ After \in Futs
    BY ScopeFutsAssumption
  <2>2. CASE AwaitBody \/ AwaitAfter
    BY <2>1, <2>2 DEF AwaitBody, AwaitAfter
  <2>3. CASE Extend \/ CatchInBody \/ LeaveBody \/ \E k \in Kids : CreateTask(k)
    BY <2>3 DEF Extend, CatchInBody, LeaveBody, CreateTask
  <2> QED
    BY <1>3, <2>2, <2>3 DEF BodyStep
<1>4. CASE OnTimeoutCancel
  BY <1>1, <1>4 DEF OnTimeoutCancel
<1>5. ASSUME NEW d \in Timers, Fire(d) \/ TimerStep(d) PROVE UNCHANGED cancelVars
  BY <1>5 DEF Fire, TimerStep, OnTimeout, OnTimeoutEnd
<1>6. ASSUME NEW k \in Kids, KidStep(k) PROVE TaskMove
  <2>1. CASE CallbackCancel(k)
    BY <1>1, <2>1 DEF CallbackCancel
  <2>2. CASE CallbackSet(k)
    <3>1. kid[k].w \in Futs
      BY <2>2 DEF CallbackSet, ScopeTyped, KidRecords
    <3> QED
      BY <2>2, <3>1 DEF CallbackSet, SetFuture
  <2>3. CASE KidEnds(k) \/ OnTaskDone(k) \/ CallbackAbort(k) \/ CallbackCancelled(k) \/ CallbackWake(k)
    BY <2>3 DEF KidEnds, OnTaskDone, CallbackAbort, CallbackCancelled, CallbackWake
  <2> QED
    BY <1>6, <2>1, <2>2, <2>3 DEF KidStep
<1>7. ASSUME NEW c \in Cancellers, CancelStep(c) PROVE TaskMove
  BY <1>7 DEF CancelStep
<1>8. ASSUME NEW o \in app.outsiders, Cancel(o) PROVE TaskMove
  BY <1>1, <1>8
<1>9. CASE Rest \/ UNCHANGED vars
  BY <1>9 DEF Rest, vars
<1> QED
  BY <1>2, <1>3, <1>4, <1>5, <1>6, <1>7, <1>8, <1>9 DEF Next
-----------------------------------------------------------------------------
\* The task.

\* What a step of a canceller does to its record.
LEMMA CancelRecordTyped ==
  ASSUME TaskTyped, NEW c \in Cancellers
  PROVE  /\ ca[c].pc \in CancelPCs /\ ca[c].n \in Nat /\ ca[c].f \in Futs \cup {NoFuture}
         /\ \A l : [ca[c] EXCEPT !.pc = l] = [pc |-> l, n |-> ca[c].n, f |-> ca[c].f]
<1>1. ca[c] \in CancelRecords
  BY DEF TaskTyped
<1> QED
  BY <1>1 DEF CancelRecords

Cancels(c) == Cancel(c) \/ CancelCount(c) \/ CancelLook(c) \/ CancelFuture(c) \/ CancelDeliver(c)

LEMMA CancelEffect ==
  ASSUME TaskTyped, NEW c \in Cancellers, Cancels(c)
  PROVE  /\ ca' \in [Cancellers -> CancelRecords]
         /\ \A d \in Cancellers : d # c => ca'[d] = ca[d]
         /\ Cancel(c) => /\ ca'[c].pc = IF tstate # "PENDING" THEN "false" ELSE "count"
                         /\ ca'[c].f = ca[c].f
         /\ CancelCount(c) => ca'[c].pc = "look" /\ ca'[c].f = ca[c].f
         /\ CancelLook(c) /\ futWaiter = NoFuture => ca'[c].pc = "true" /\ ca'[c].f = ca[c].f
         /\ CancelLook(c) /\ futWaiter # NoFuture => ca'[c].pc = "cancel" /\ ca'[c].f = futWaiter
         /\ CancelFuture(c) => /\ ca'[c].pc = IF fstate[ca[c].f] = "PENDING" THEN "true" ELSE "deliver"
                               /\ ca'[c].f = ca[c].f
         /\ CancelDeliver(c) => ca'[c].pc = "true" /\ ca'[c].f = ca[c].f
<1> DEFINE Rec(l, m, g) == [pc |-> l, n |-> m, f |-> g]
<1>0. /\ ca[c].n \in Nat /\ ca[c].f \in Futs \cup {NoFuture} /\ numCancels \in Nat
      /\ futWaiter \in Futs \cup {NoFuture}
  BY CancelRecordTyped DEF TaskTyped
<1>1. ASSUME NEW l \in CancelPCs, NEW m \in Nat, NEW g \in Futs \cup {NoFuture},
             ca' = [ca EXCEPT ![c] = Rec(l, m, g)]
      PROVE  /\ ca' \in [Cancellers -> CancelRecords] /\ ca'[c].pc = l /\ ca'[c].f = g
             /\ \A d \in Cancellers : d # c => ca'[d] = ca[d]
  <2>1. Rec(l, m, g) \in CancelRecords /\ Rec(l, m, g).pc = l /\ Rec(l, m, g).f = g
    BY DEF CancelRecords
  <2> HIDE DEF Rec
  <2> QED
    BY <1>1, <2>1 DEF TaskTyped
<1> HIDE DEF Rec
<1>2. CASE Cancel(c)
  <2>1. PICK l \in CancelPCs : l = IF tstate # "PENDING" THEN "false" ELSE "count"
    BY DEF CancelPCs
  <2>2. ca' = [ca EXCEPT ![c] = Rec(l, numCancels, ca[c].f)]
    BY <1>2, <2>1 DEF Cancel, Rec
  <2>3. ca[c].pc = "start"
    BY <1>2 DEF Cancel
  <2> QED
    BY <1>0, <1>1, <2>1, <2>2, <2>3 DEF CancelCount, CancelLook, CancelFuture, CancelDeliver
<1>3. CASE CancelCount(c)
  <2>1. ca' = [ca EXCEPT ![c] = Rec("look", ca[c].n, ca[c].f)]
    BY <1>3, CancelRecordTyped DEF CancelCount, CGoto, Rec
  <2> QED
    BY <1>0, <1>1, <1>3, <2>1
       DEF CancelPCs, Cancel, CancelCount, CancelLook, CancelFuture, CancelDeliver
<1>4. CASE CancelLook(c)
  <2>1. CASE futWaiter = NoFuture
    <3>1. ca' = [ca EXCEPT ![c] = Rec("true", ca[c].n, ca[c].f)]
      BY <1>4, <2>1, CancelRecordTyped DEF CancelLook, CGoto, Rec
    <3> QED
      BY <1>0, <1>1, <1>4, <2>1, <3>1
         DEF CancelPCs, Cancel, CancelCount, CancelLook, CancelFuture, CancelDeliver
  <2>2. CASE futWaiter # NoFuture
    <3>1. ca' = [ca EXCEPT ![c] = Rec("cancel", ca[c].n, futWaiter)]
      BY <1>4, <2>2 DEF CancelLook, Rec
    <3> QED
      BY <1>0, <1>1, <1>4, <2>2, <3>1
         DEF CancelPCs, Cancel, CancelCount, CancelLook, CancelFuture, CancelDeliver
  <2> QED
    BY <2>1, <2>2
<1>5. CASE CancelFuture(c)
  <2>1. PICK l \in CancelPCs : l = IF fstate[ca[c].f] = "PENDING" THEN "true" ELSE "deliver"
    BY DEF CancelPCs
  <2>2. ca' = [ca EXCEPT ![c] = Rec(l, ca[c].n, ca[c].f)]
    BY <1>5, <2>1, CancelRecordTyped DEF CancelFuture, CGoto, Rec
  <2> QED
    BY <1>0, <1>1, <1>5, <2>1, <2>2, ZenonT(40)
       DEF Cancel, CancelCount, CancelLook, CancelFuture, CancelDeliver
<1>6. CASE CancelDeliver(c)
  <2>1. ca' = [ca EXCEPT ![c] = Rec("true", ca[c].n, ca[c].f)]
    BY <1>6, CancelRecordTyped DEF CancelDeliver, CGoto, Rec
  <2> QED
    BY <1>0, <1>1, <1>6, <2>1
       DEF CancelPCs, Cancel, CancelCount, CancelLook, CancelFuture, CancelDeliver
<1> QED
  BY <1>2, <1>3, <1>4, <1>5, <1>6 DEF Cancels

LEMMA TaskInvStep == TaskInv /\ TaskMove => TaskInv'
<1> SUFFICES ASSUME TaskInv, TaskMove PROVE TaskInv'
  OBVIOUS
<1> USE FutsAssumption DEF TaskInv, futVars, bodyVars, taskVars, cancelVars, TaskPCs, States, CancelPCs
<1>1. ASSUME NEW f \in Futs, Await(f) PROVE TaskInv'
  <2>1. TaskTyped'
    BY <1>1 DEF TaskTyped, CancelRecords, Await
  <2>2. WaiterIsFut'
    BY <1>1 DEF TaskTyped, WaiterIsFut, Await
  <2>3. EventsFollow'
    BY <1>1 DEF TaskTyped, EventsFollow, Await
  <2>4. AimIsFut'
    BY <1>1 DEF TaskTyped, WaiterIsFut, AimIsFut, EventsFollow, Await
  <2>5. DueIsMissed'
    BY <1>1 DEF TaskTyped, WaiterIsFut, DueIsMissed, AimIsFut, Await
  <2> QED
    BY <2>1, <2>2, <2>3, <2>4, <2>5
<1>2. ASSUME NEW f \in Futs, CompleteFuture(f) PROVE TaskInv'
  <2>1. TaskTyped'
    BY <1>2 DEF TaskTyped, CancelRecords, CompleteFuture
  <2>2. WaiterIsFut'
    BY <1>2 DEF TaskTyped, WaiterIsFut, CompleteFuture
  <2>3. EventsFollow'
    BY <1>2 DEF TaskTyped, EventsFollow, CompleteFuture
  <2>4. AimIsFut'
    BY <1>2 DEF TaskTyped, WaiterIsFut, AimIsFut, EventsFollow, CompleteFuture
  <2>5. DueIsMissed'
    BY <1>2 DEF TaskTyped, WaiterIsFut, DueIsMissed, AimIsFut, CompleteFuture
  <2> QED
    BY <2>1, <2>2, <2>3, <2>4, <2>5
<1>3. ASSUME NEW f \in Futs, WakeFuture(f) PROVE TaskInv'
  <2>1. TaskTyped'
    BY <1>3 DEF TaskTyped, CancelRecords, WakeFuture
  <2>2. WaiterIsFut'
    BY <1>3 DEF TaskTyped, WaiterIsFut, WakeFuture
  <2>3. EventsFollow'
    BY <1>3 DEF TaskTyped, EventsFollow, WakeFuture
  <2>4. AimIsFut'
    BY <1>3 DEF TaskTyped, WaiterIsFut, AimIsFut, EventsFollow, WakeFuture
  <2>5. DueIsMissed'
    BY <1>3 DEF TaskTyped, WaiterIsFut, DueIsMissed, AimIsFut, WakeFuture
  <2> QED
    BY <2>1, <2>2, <2>3, <2>4, <2>5
<1>4. ASSUME NEW f \in Futs, SetFuture(f) PROVE TaskInv'
  <2>1. TaskTyped'
    BY <1>4 DEF TaskTyped, CancelRecords, SetFuture
  <2>2. WaiterIsFut'
    BY <1>4 DEF TaskTyped, WaiterIsFut, SetFuture
  <2>3. EventsFollow'
    BY <1>4 DEF TaskTyped, EventsFollow, SetFuture
  <2>4. AimIsFut'
    BY <1>4 DEF TaskTyped, WaiterIsFut, AimIsFut, EventsFollow, SetFuture
  <2>5. DueIsMissed'
    BY <1>4 DEF TaskTyped, WaiterIsFut, DueIsMissed, AimIsFut, SetFuture
  <2> QED
    BY <2>1, <2>2, <2>3, <2>4, <2>5
<1>5. ASSUME Arm PROVE TaskInv'
  <2>1. TaskTyped'
    BY <1>5 DEF TaskTyped, CancelRecords, Arm, RaiseDue
  <2>2. WaiterIsFut'
    BY <1>5 DEF TaskTyped, WaiterIsFut, Arm, RaiseDue
  <2>3. EventsFollow'
    BY <1>5 DEF TaskTyped, EventsFollow, Arm, RaiseDue
  <2>4. AimIsFut'
    BY <1>5 DEF TaskTyped, WaiterIsFut, AimIsFut, EventsFollow, Arm, RaiseDue
  <2>5. DueIsMissed'
    BY <1>5 DEF TaskTyped, WaiterIsFut, DueIsMissed, AimIsFut, Arm, RaiseDue
  <2> QED
    BY <2>1, <2>2, <2>3, <2>4, <2>5
<1>6. ASSUME Ready PROVE TaskInv'
  <2>1. TaskTyped'
    BY <1>6 DEF TaskTyped, CancelRecords, Ready, RaiseDue
  <2>2. WaiterIsFut'
    BY <1>6 DEF TaskTyped, WaiterIsFut, Ready, RaiseDue
  <2>3. EventsFollow'
    BY <1>6 DEF TaskTyped, EventsFollow, Ready, RaiseDue
  <2>4. AimIsFut'
    BY <1>6 DEF TaskTyped, WaiterIsFut, AimIsFut, EventsFollow, Ready, RaiseDue
  <2>5. DueIsMissed'
    BY <1>6 DEF TaskTyped, WaiterIsFut, DueIsMissed, AimIsFut, Ready, RaiseDue
  <2> QED
    BY <2>1, <2>2, <2>3, <2>4, <2>5
<1>7. ASSUME Resume PROVE TaskInv'
  <2>1. TaskTyped'
    BY <1>7 DEF TaskTyped, CancelRecords, Resume
  <2>2. WaiterIsFut'
    BY <1>7 DEF TaskTyped, WaiterIsFut, Resume
  <2>3. EventsFollow'
    BY <1>7 DEF TaskTyped, EventsFollow, Resume
  <2>4. AimIsFut'
    BY <1>7 DEF TaskTyped, WaiterIsFut, AimIsFut, EventsFollow, Resume
  <2>5. DueIsMissed'
    BY <1>7 DEF TaskTyped, WaiterIsFut, DueIsMissed, AimIsFut, Resume
  <2> QED
    BY <2>1, <2>2, <2>3, <2>4, <2>5
<1>8. ASSUME Unarm PROVE TaskInv'
  <2>1. TaskTyped'
    BY <1>8 DEF TaskTyped, CancelRecords, Unarm
  <2>2. WaiterIsFut'
    BY <1>8 DEF TaskTyped, WaiterIsFut, Unarm
  <2>3. EventsFollow'
    BY <1>8 DEF TaskTyped, EventsFollow, Unarm
  <2>4. AimIsFut'
    BY <1>8 DEF TaskTyped, WaiterIsFut, AimIsFut, EventsFollow, Unarm
  <2>5. DueIsMissed'
    BY <1>8 DEF TaskTyped, WaiterIsFut, DueIsMissed, AimIsFut, Unarm
  <2> QED
    BY <2>1, <2>2, <2>3, <2>4, <2>5
<1>9. ASSUME Read PROVE TaskInv'
  <2>1. TaskTyped'
    BY <1>9 DEF TaskTyped, CancelRecords, Read
  <2>2. WaiterIsFut'
    BY <1>9 DEF TaskTyped, WaiterIsFut, Read
  <2>3. EventsFollow'
    BY <1>9 DEF TaskTyped, EventsFollow, Read
  <2>4. AimIsFut'
    BY <1>9 DEF TaskTyped, WaiterIsFut, AimIsFut, EventsFollow, Read
  <2>5. DueIsMissed'
    BY <1>9 DEF TaskTyped, WaiterIsFut, DueIsMissed, AimIsFut, Read
  <2> QED
    BY <2>1, <2>2, <2>3, <2>4, <2>5
<1>10. ASSUME Catch PROVE TaskInv'
  <2>1. TaskTyped'
    BY <1>10 DEF TaskTyped, CancelRecords, Catch
  <2>2. WaiterIsFut'
    BY <1>10 DEF TaskTyped, WaiterIsFut, Catch
  <2>3. EventsFollow'
    BY <1>10 DEF TaskTyped, EventsFollow, Catch
  <2>4. AimIsFut'
    BY <1>10 DEF TaskTyped, WaiterIsFut, AimIsFut, EventsFollow, Catch
  <2>5. DueIsMissed'
    BY <1>10 DEF TaskTyped, WaiterIsFut, DueIsMissed, AimIsFut, Catch
  <2> QED
    BY <2>1, <2>2, <2>3, <2>4, <2>5
<1>11. ASSUME Uncancel PROVE TaskInv'
  <2>1. TaskTyped'
    BY <1>11 DEF TaskTyped, CancelRecords, Uncancel
  <2>2. WaiterIsFut'
    BY <1>11 DEF TaskTyped, WaiterIsFut, Uncancel
  <2>3. EventsFollow'
    BY <1>11 DEF TaskTyped, EventsFollow, Uncancel
  <2>4. AimIsFut'
    BY <1>11 DEF TaskTyped, WaiterIsFut, AimIsFut, EventsFollow, Uncancel
  <2>5. DueIsMissed'
    BY <1>11 DEF TaskTyped, WaiterIsFut, DueIsMissed, AimIsFut, Uncancel
  <2> QED
    BY <2>1, <2>2, <2>3, <2>4, <2>5
<1>12. ASSUME UncancelStore PROVE TaskInv'
  <2>1. TaskTyped'
    BY <1>12 DEF TaskTyped, CancelRecords, WaiterIsFut, UncancelStore
  <2>2. WaiterIsFut'
    BY <1>12 DEF TaskTyped, WaiterIsFut, UncancelStore
  <2>3. EventsFollow'
    BY <1>12 DEF TaskTyped, EventsFollow, UncancelStore
  <2>4. AimIsFut'
    BY <1>12 DEF TaskTyped, WaiterIsFut, AimIsFut, EventsFollow, UncancelStore
  <2>5. DueIsMissed'
    BY <1>12 DEF TaskTyped, WaiterIsFut, DueIsMissed, AimIsFut, UncancelStore
  <2> QED
    BY <2>1, <2>2, <2>3, <2>4, <2>5
<1>13. ASSUME UncancelTest PROVE TaskInv'
  <2>1. TaskTyped'
    BY <1>13 DEF TaskTyped, CancelRecords, UncancelTest
  <2>2. WaiterIsFut'
    BY <1>13 DEF TaskTyped, WaiterIsFut, UncancelTest
  <2>3. EventsFollow'
    BY <1>13 DEF TaskTyped, EventsFollow, UncancelTest
  <2>4. AimIsFut'
    BY <1>13 DEF TaskTyped, WaiterIsFut, AimIsFut, EventsFollow, UncancelTest
  <2>5. DueIsMissed'
    BY <1>13 DEF TaskTyped, WaiterIsFut, DueIsMissed, AimIsFut, UncancelTest
  <2> QED
    BY <2>1, <2>2, <2>3, <2>4, <2>5
<1>14. ASSUME Withdraw PROVE TaskInv'
  <2>1. TaskTyped'
    BY <1>14 DEF TaskTyped, CancelRecords, Withdraw
  <2>2. WaiterIsFut'
    BY <1>14 DEF TaskTyped, WaiterIsFut, Withdraw
  <2>3. EventsFollow'
    BY <1>14 DEF TaskTyped, EventsFollow, Withdraw
  <2>4. AimIsFut'
    BY <1>14 DEF TaskTyped, WaiterIsFut, AimIsFut, EventsFollow, Withdraw
  <2>5. DueIsMissed'
    BY <1>14 DEF TaskTyped, WaiterIsFut, DueIsMissed, AimIsFut, Withdraw
  <2> QED
    BY <2>1, <2>2, <2>3, <2>4, <2>5
<1>15. ASSUME Escape PROVE TaskInv'
  <2>1. TaskTyped'
    BY <1>15 DEF TaskTyped, CancelRecords, Escape
  <2>2. WaiterIsFut'
    BY <1>15 DEF TaskTyped, WaiterIsFut, Escape
  <2>3. EventsFollow'
    BY <1>15 DEF TaskTyped, EventsFollow, Escape
  <2>4. AimIsFut'
    BY <1>15 DEF TaskTyped, WaiterIsFut, AimIsFut, EventsFollow, Escape
  <2>5. DueIsMissed'
    BY <1>15 DEF TaskTyped, WaiterIsFut, DueIsMissed, AimIsFut, Escape
  <2> QED
    BY <2>1, <2>2, <2>3, <2>4, <2>5
<1>16. ASSUME Fail PROVE TaskInv'
  <2>1. TaskTyped'
    BY <1>16 DEF TaskTyped, CancelRecords, Fail
  <2>2. WaiterIsFut'
    BY <1>16 DEF TaskTyped, WaiterIsFut, Fail
  <2>3. EventsFollow'
    BY <1>16 DEF TaskTyped, EventsFollow, Fail
  <2>4. AimIsFut'
    BY <1>16 DEF TaskTyped, WaiterIsFut, AimIsFut, EventsFollow, Fail
  <2>5. DueIsMissed'
    BY <1>16 DEF TaskTyped, WaiterIsFut, DueIsMissed, AimIsFut, Fail
  <2> QED
    BY <2>1, <2>2, <2>3, <2>4, <2>5
<1>17. ASSUME Return PROVE TaskInv'
  <2>1. TaskTyped'
    BY <1>17 DEF TaskTyped, CancelRecords, Return
  <2>2. WaiterIsFut'
    BY <1>17 DEF TaskTyped, WaiterIsFut, Return
  <2>3. EventsFollow'
    BY <1>17 DEF TaskTyped, EventsFollow, Return
  <2>4. AimIsFut'
    BY <1>17 DEF TaskTyped, WaiterIsFut, AimIsFut, EventsFollow, Return
  <2>5. DueIsMissed'
    BY <1>17 DEF TaskTyped, WaiterIsFut, DueIsMissed, AimIsFut, Return
  <2> QED
    BY <2>1, <2>2, <2>3, <2>4, <2>5
<1>18. ASSUME Settle PROVE TaskInv'
  <2>1. TaskTyped'
    BY <1>18 DEF TaskTyped, CancelRecords, Settle
  <2>2. WaiterIsFut'
    BY <1>18 DEF TaskTyped, WaiterIsFut, Settle
  <2>3. EventsFollow'
    BY <1>18 DEF TaskTyped, EventsFollow, Settle
  <2>4. AimIsFut'
    BY <1>18 DEF TaskTyped, WaiterIsFut, AimIsFut, EventsFollow, Settle
  <2>5. DueIsMissed'
    BY <1>18 DEF TaskTyped, WaiterIsFut, DueIsMissed, AimIsFut, Settle
  <2> QED
    BY <2>1, <2>2, <2>3, <2>4, <2>5
<1>19. ASSUME Rethrow PROVE TaskInv'
  <2>1. TaskTyped'
    BY <1>19 DEF TaskTyped, CancelRecords, Rethrow
  <2>2. WaiterIsFut'
    BY <1>19 DEF TaskTyped, WaiterIsFut, Rethrow
  <2>3. EventsFollow'
    BY <1>19 DEF TaskTyped, EventsFollow, Rethrow
  <2>4. AimIsFut'
    BY <1>19 DEF TaskTyped, WaiterIsFut, AimIsFut, EventsFollow, Rethrow
  <2>5. DueIsMissed'
    BY <1>19 DEF TaskTyped, WaiterIsFut, DueIsMissed, AimIsFut, Rethrow
  <2> QED
    BY <2>1, <2>2, <2>3, <2>4, <2>5
<1>20. ASSUME NEW c \in Cancellers, Cancel(c) PROVE TaskInv'
  <2>0. Cancels(c) /\ ca[c] \in CancelRecords
    BY <1>20 DEF Cancels, TaskTyped
  <2>1. TaskTyped'
    BY <1>20, <2>0, CancelEffect DEF TaskTyped, CancelRecords, Cancel
  <2>2. WaiterIsFut'
    BY <1>20 DEF WaiterIsFut, Cancel
  <2>3. EventsFollow'
    BY <1>20 DEF TaskTyped, EventsFollow, Cancel
  <2>4. AimIsFut'
    BY <1>20, <2>0, CancelEffect DEF TaskTyped, WaiterIsFut, AimIsFut, EventsFollow, Cancel
  <2>5. DueIsMissed'
    BY <1>20, <2>0, CancelEffect DEF TaskTyped, WaiterIsFut, DueIsMissed, AimIsFut, Cancel
  <2> QED
    BY <2>1, <2>2, <2>3, <2>4, <2>5
<1>21. ASSUME NEW c \in Cancellers, CancelCount(c) PROVE TaskInv'
  <2>0. Cancels(c) /\ ca[c] \in CancelRecords
    BY <1>21 DEF Cancels, TaskTyped
  <2>1. TaskTyped'
    BY <1>21, <2>0, CancelEffect DEF TaskTyped, CancelRecords, CancelCount
  <2>2. WaiterIsFut'
    BY <1>21 DEF WaiterIsFut, CancelCount
  <2>3. EventsFollow'
    BY <1>21 DEF TaskTyped, EventsFollow, CancelCount
  <2>4. AimIsFut'
    BY <1>21, <2>0, CancelEffect DEF TaskTyped, WaiterIsFut, AimIsFut, EventsFollow, CancelCount
  <2>5. DueIsMissed'
    BY <1>21, <2>0, CancelEffect DEF TaskTyped, WaiterIsFut, DueIsMissed, AimIsFut, CancelCount
  <2> QED
    BY <2>1, <2>2, <2>3, <2>4, <2>5
<1>22. ASSUME NEW c \in Cancellers, CancelLook(c) PROVE TaskInv'
  <2>0. Cancels(c) /\ ca[c] \in CancelRecords
    BY <1>22 DEF Cancels, TaskTyped
  <2>1. TaskTyped'
    BY <1>22, <2>0, CancelEffect, ZenonT(40) DEF TaskTyped, CancelRecords, CancelLook
  <2>2. WaiterIsFut'
    BY <1>22 DEF WaiterIsFut, CancelLook
  <2>3. EventsFollow'
    BY <1>22 DEF TaskTyped, EventsFollow, CancelLook
  <2>a. /\ \A d \in Cancellers : d # c => ca'[d] = ca[d]
        /\ futWaiter = NoFuture => ca'[c].pc = "true"
        /\ futWaiter # NoFuture => ca'[c].pc = "cancel" /\ ca'[c].f = futWaiter
        /\ futWaiter # NoFuture => mustCancel' = mustCancel
        /\ UNCHANGED <<fstate, pc, fut, fevent>> /\ ca[c].pc = "look"
    <3>1. ca[c].pc = "look" /\ (futWaiter # NoFuture => mustCancel' = mustCancel)
      BY <1>22 DEF CancelLook
    <3>2. UNCHANGED <<fstate, pc, fut, fevent>>
      BY <1>22 DEF CancelLook
    <3> QED
      BY <1>22, <2>0, <3>1, <3>2, CancelEffect
  <2>b. futWaiter # NoFuture => /\ futWaiter \in Futs /\ futWaiter = fut
                                /\ fstate[fut] = "PENDING" => pc = "parked"
    BY DEF WaiterIsFut, EventsFollow
  <2>4. AimIsFut'
    BY <2>a, <2>b DEF AimIsFut
  <2>5. DueIsMissed'
    BY <2>a DEF WaiterIsFut, DueIsMissed
  <2> QED
    BY <2>1, <2>2, <2>3, <2>4, <2>5
<1>23. ASSUME NEW c \in Cancellers, CancelFuture(c) PROVE TaskInv'
  <2>0. Cancels(c) /\ ca[c] \in CancelRecords
    BY <1>23 DEF Cancels, TaskTyped
  <2>1. TaskTyped'
    BY <1>23, <2>0, CancelEffect DEF TaskTyped, CancelRecords, CancelFuture
  <2>2. WaiterIsFut'
    BY <1>23 DEF WaiterIsFut, CancelFuture
  <2>3. EventsFollow'
    BY <1>23 DEF TaskTyped, EventsFollow, CancelFuture
  <2>4. AimIsFut'
    BY <1>23, <2>0, CancelEffect DEF TaskTyped, WaiterIsFut, AimIsFut, EventsFollow, CancelFuture
  <2>5. DueIsMissed'
    BY <1>23, <2>0, CancelEffect DEF TaskTyped, WaiterIsFut, DueIsMissed, AimIsFut, CancelFuture
  <2> QED
    BY <2>1, <2>2, <2>3, <2>4, <2>5
<1>24. ASSUME NEW c \in Cancellers, CancelDeliver(c) PROVE TaskInv'
  <2>0. Cancels(c) /\ ca[c] \in CancelRecords
    BY <1>24 DEF Cancels, TaskTyped
  <2>1. TaskTyped'
    BY <1>24, <2>0, CancelEffect DEF TaskTyped, CancelRecords, CancelDeliver
  <2>2. WaiterIsFut'
    BY <1>24 DEF WaiterIsFut, CancelDeliver
  <2>3. EventsFollow'
    BY <1>24 DEF TaskTyped, EventsFollow, CancelDeliver
  <2>4. AimIsFut'
    BY <1>24, <2>0, CancelEffect DEF TaskTyped, WaiterIsFut, AimIsFut, EventsFollow, CancelDeliver
  <2>5. DueIsMissed'
    BY <1>24, <2>0, CancelEffect DEF TaskTyped, WaiterIsFut, DueIsMissed, AimIsFut, CancelDeliver
  <2> QED
    BY <2>1, <2>2, <2>3, <2>4, <2>5
<1>25. ASSUME UNCHANGED cancelVars PROVE TaskInv'
  <2>1. TaskTyped'
    BY <1>25 DEF TaskTyped, CancelRecords
  <2>2. WaiterIsFut'
    BY <1>25 DEF TaskTyped, WaiterIsFut
  <2>3. EventsFollow'
    BY <1>25 DEF TaskTyped, EventsFollow
  <2>4. AimIsFut'
    BY <1>25 DEF TaskTyped, WaiterIsFut, AimIsFut, EventsFollow
  <2>5. DueIsMissed'
    BY <1>25 DEF TaskTyped, WaiterIsFut, DueIsMissed, AimIsFut
  <2> QED
    BY <2>1, <2>2, <2>3, <2>4, <2>5
<1> QED
  BY <1>1, <1>2, <1>3, <1>4, <1>5, <1>6, <1>7, <1>8, <1>9, <1>10, <1>11, <1>12, <1>13, <1>14,
     <1>15, <1>16, <1>17, <1>18, <1>19, <1>20, <1>21, <1>22, <1>23, <1>24, <1>25 DEF TaskMove
-----------------------------------------------------------------------------
\* The types of the scopes' state.

LEMMA ScopeTypedStep == ScopeTyped /\ [Next]_vars => ScopeTyped'
<1> SUFFICES ASSUME ScopeTyped, [Next]_vars PROVE ScopeTyped'
  OBVIOUS
<1> USE FutsAssumption, AppsAssumption, ScopeFutsAssumption DEF Goto, Places, Timers, KidStates, CallbackPCs
<1>0. ASSUME UNCHANGED scopeVars PROVE ScopeTyped'
  BY <1>0 DEF scopeVars, ScopeTyped
<1>1. ASSUME Enter PROVE ScopeTyped'
  <2>1. /\ tmo' = tmo \/ tmo' = [tmo EXCEPT !.state = "entered", !.handler = 1]
        /\ tpc' \in [Timers -> {"idle", "armed", "fired", "cancel"}]
    BY <1>1, ZenonT(40) DEF ScopeTyped, Enter, Reschedule, CallAt, CancelTimer
  <2>2. tmo' \in TimeoutRecords
    BY <2>1 DEF ScopeTyped, TimeoutRecords
  <2> QED
    BY <1>1, <2>1, <2>2 DEF ScopeTyped, Enter
<1>2. ASSUME Extend PROVE ScopeTyped'
  <2>1. /\ tmo' = [tmo EXCEPT !.state = "entered", !.handler = 2]
        /\ tpc' \in [Timers -> {"idle", "armed", "fired", "cancel"}]
    BY <1>2 DEF ScopeTyped, Extend, Reschedule, CallAt, CancelTimer
  <2>2. tmo' \in TimeoutRecords
    BY <2>1 DEF ScopeTyped, TimeoutRecords
  <2> QED
    BY <1>2, <2>1, <2>2 DEF ScopeTyped, Extend
<1>3. ASSUME NEW d \in Timers, Fire(d) PROVE ScopeTyped'
  BY <1>3 DEF ScopeTyped, TimeoutRecords, GroupRecords, KidRecords, Fire
<1>4. ASSUME NEW d \in Timers, OnTimeout(d) PROVE ScopeTyped'
  BY <1>4 DEF ScopeTyped, TimeoutRecords, GroupRecords, KidRecords, OnTimeout
<1>5. ASSUME OnTimeoutCancel PROVE ScopeTyped'
  BY <1>0, <1>5 DEF OnTimeoutCancel
<1>6. ASSUME NEW d \in Timers, OnTimeoutEnd(d) PROVE ScopeTyped'
  BY <1>6 DEF ScopeTyped, TimeoutRecords, GroupRecords, KidRecords, OnTimeoutEnd
<1>7. ASSUME TimeoutExit PROVE ScopeTyped'
  <2>1. tpc' \in [Timers -> {"idle", "armed", "fired", "cancel"}]
    BY <1>7 DEF ScopeTyped, TimeoutExit, CancelTimer
  <2>2. tmo' \in TimeoutRecords
    BY <1>7 DEF ScopeTyped, TimeoutExit, TimeoutRecords
  <2> QED
    BY <1>7, <2>1, <2>2 DEF ScopeTyped, TimeoutExit
<1>8. ASSUME TimeoutUncancel PROVE ScopeTyped'
  BY <1>8 DEF ScopeTyped, TimeoutRecords, GroupRecords, KidRecords, TimeoutUncancel, CallUncancel
<1>9. ASSUME TimeoutEnd PROVE ScopeTyped'
  BY <1>9 DEF ScopeTyped, TimeoutRecords, GroupRecords, KidRecords, TimeoutEnd
<1>10. ASSUME GroupEnter PROVE ScopeTyped'
  BY <1>10 DEF ScopeTyped, TimeoutRecords, GroupRecords, KidRecords, GroupEnter
<1>11. ASSUME NEW k \in Kids, CreateTask(k) PROVE ScopeTyped'
  <2>1. PICK r : r = [st |-> "run", creq |-> FALSE, cb |-> "add", w |-> NoFuture]
    OBVIOUS
  <2>2. r \in KidRecords /\ r.cb = "add"
    BY <2>1 DEF KidRecords
  <2>3. kid' = kid \/ kid' = [kid EXCEPT ![k] = r]
    BY <1>11, <2>1 DEF CreateTask
  <2>4. kid' \in [Kids -> KidRecords] /\ \A j \in Kids : kid'[j].cb = "set" => kid'[j].w # NoFuture
    BY <2>2, <2>3 DEF ScopeTyped
  <2> QED
    BY <1>11, <2>4 DEF ScopeTyped, CreateTask
<1>12. ASSUME NEW k \in Kids, AddMember(k) PROVE ScopeTyped'
  <2>1. /\ kid \in [Kids -> KidRecords] /\ kid' = [kid EXCEPT ![k].cb = "register"]
        /\ grp \in GroupRecords /\ grp' = [grp EXCEPT !.members = @ \cup {k}]
    BY <1>12 DEF ScopeTyped, AddMember
  <2>2. kid' \in [Kids -> KidRecords]
    BY <2>1 DEF KidRecords
  <2>3. \A j \in Kids : kid'[j].cb = "set" => kid[j].cb = "set" /\ kid'[j].w = kid[j].w
    BY <2>1 DEF KidRecords
  <2>4. grp' \in GroupRecords /\ grp'.waiter = grp.waiter
    BY <2>1 DEF GroupRecords
  <2> QED
    BY <1>12, <2>2, <2>3, <2>4 DEF ScopeTyped, AddMember
<1>13. ASSUME NEW k \in Kids, AddCallback(k) PROVE ScopeTyped'
  BY <1>13 DEF ScopeTyped, TimeoutRecords, GroupRecords, KidRecords, AddCallback
<1>14. ASSUME NEW k \in Kids, KidEnds(k) PROVE ScopeTyped'
  <2>1. PICK e \in app.fates \cup {"cancelled"} :
          kid' = [kid EXCEPT ![k] = [st |-> e, creq |-> @.creq, w |-> @.w,
                                     cb |-> IF @.cb = "added" THEN "queued" ELSE @.cb]]
    BY <1>14 DEF KidEnds
  <2>2. e \in KidStates
    BY DEF ScopeTyped
  <2>3. PICK r : r = [st |-> e, creq |-> kid[k].creq, w |-> kid[k].w,
                      cb |-> IF kid[k].cb = "added" THEN "queued" ELSE kid[k].cb]
    OBVIOUS
  <2>4. r \in KidRecords /\ r.w = kid[k].w /\ (r.cb = "set" => kid[k].cb = "set")
    BY <2>2, <2>3 DEF ScopeTyped, KidRecords
  <2>5. kid' = [kid EXCEPT ![k] = r]
    BY <2>1, <2>3
  <2>6. /\ kid' \in [Kids -> KidRecords]
        /\ \A j \in Kids : kid'[j].w = kid[j].w /\ (kid'[j].cb = "set" => kid[j].cb = "set")
    BY <2>4, <2>5 DEF ScopeTyped
  <2> QED
    BY <1>14, <2>6 DEF ScopeTyped, KidEnds
<1>15. ASSUME NEW k \in Kids, OnTaskDone(k) PROVE ScopeTyped'
  <2>1. PICK b \in BOOLEAN : b = (Failed(k) /\ ~grp.aborting /\ ~grp.req /\ ~grp.gone /\ tstate = "PENDING")
    OBVIOUS
  <2>2. /\ kid' = [kid EXCEPT ![k].cb = IF b THEN "abort" ELSE "wake"]
        /\ grp' = [grp EXCEPT !.members = @ \ {k},
                              !.errors = IF Failed(k) THEN @ \cup {k} ELSE @,
                              !.base = @ \/ kid[k].st = "base",
                              !.req = @ \/ b]
        /\ UNCHANGED <<app, at, exc, awaits, tmo, tpc, prop, doomed, late>>
    BY <1>15, <2>1 DEF OnTaskDone, CbGoto
  <2>3. /\ kid' \in [Kids -> KidRecords]
        /\ \A j \in Kids : kid'[j].w = kid[j].w /\ (kid'[j].cb = "set" => kid[j].cb = "set")
    BY <2>2 DEF ScopeTyped, KidRecords
  <2>4. grp' \in GroupRecords /\ grp'.waiter = grp.waiter
    BY <2>2 DEF ScopeTyped, GroupRecords
  <2> QED
    BY <2>2, <2>3, <2>4 DEF ScopeTyped
<1>16. ASSUME NEW k \in Kids, CallbackAbort(k) PROVE ScopeTyped'
  <2>1. CASE kid[k].cb = "abort" /\ Flag /\ CbGoto(k, "list")
    <3>1. grp' \in GroupRecords /\ grp'.waiter = grp.waiter
      BY <2>1 DEF Flag, ScopeTyped, GroupRecords
    <3>2. kid' \in [Kids -> KidRecords] /\ \A j \in Kids : kid'[j].cb = "set" => kid'[j].w # NoFuture
      BY <2>1 DEF CbGoto, ScopeTyped, KidRecords
    <3> QED
      BY <1>16, <2>1, <3>1, <3>2 DEF CallbackAbort, Flag, ScopeTyped
  <2>2. CASE kid[k].cb = "list" /\ List(k) /\ CbGoto(k, "kill")
    BY <1>16, <2>2 DEF CallbackAbort, List, CbGoto, ScopeTyped, GroupRecords, KidRecords
  <2>3. CASE kid[k].cb = "kill" /\ Kill(k) /\ UNCHANGED grp
    <3>1. PICK j \in doomed[k] : /\ doomed' = [doomed EXCEPT ![k] = @ \ {j}]
                                /\ kid' = [kid EXCEPT ![j].creq = @ \/ ~Ended(j)]
      BY <2>3 DEF Kill
    <3>2. j \in Kids /\ doomed' \in [Kids \cup {Self} -> SUBSET Kids]
      BY <3>1 DEF ScopeTyped
    <3>a. PICK b \in BOOLEAN : b = (kid[j].creq \/ ~Ended(j))
      OBVIOUS
    <3>b. kid' = [kid EXCEPT ![j].creq = b]
      BY <3>1, <3>a
    <3>3. kid' \in [Kids -> KidRecords]
      BY <3>2, <3>b DEF ScopeTyped, KidRecords
    <3>4. \A i \in Kids : kid'[i].cb = kid[i].cb /\ kid'[i].w = kid[i].w
      BY <3>1, <3>2 DEF ScopeTyped, KidRecords
    <3> QED
      BY <1>16, <2>3, <3>2, <3>3, <3>4 DEF CallbackAbort, ScopeTyped
  <2>4. CASE kid[k].cb = "kill" /\ doomed[k] = {} /\ CbGoto(k, "cancel") /\ UNCHANGED <<grp, doomed>>
    BY <1>16, <2>4 DEF CallbackAbort, CbGoto, ScopeTyped, GroupRecords, KidRecords
  <2> QED
    BY <1>16, <2>1, <2>2, <2>3, <2>4 DEF CallbackAbort
<1>17. ASSUME NEW k \in Kids, CallbackCancel(k) PROVE ScopeTyped'
  BY <1>0, <1>17 DEF CallbackCancel
<1>18. ASSUME NEW k \in Kids, CallbackCancelled(k) PROVE ScopeTyped'
  BY <1>18 DEF ScopeTyped, TimeoutRecords, GroupRecords, KidRecords, CallbackCancelled, CbGoto
<1>19. ASSUME NEW k \in Kids, CallbackWake(k) PROVE ScopeTyped'
  <2>1. CASE grp.waiter # NoFuture /\ kid' = [kid EXCEPT ![k] = [st |-> @.st, creq |-> @.creq, cb |-> "set",
                                                             w |-> grp.waiter]]
    <3>1. grp.waiter \in Futs
      BY <2>1 DEF ScopeTyped, GroupRecords, GroupFuts
    <3>a. PICK r : r = [st |-> kid[k].st, creq |-> kid[k].creq, cb |-> "set", w |-> grp.waiter]
      OBVIOUS
    <3>b. r \in KidRecords /\ r.w = grp.waiter
      BY <3>1, <3>a DEF ScopeTyped, KidRecords
    <3>c. kid' = [kid EXCEPT ![k] = r]
      BY <2>1, <3>a
    <3>2. /\ kid' \in [Kids -> KidRecords]
          /\ \A j \in Kids : kid'[j].cb = "set" => kid'[j].w # NoFuture
      BY <2>1, <3>b, <3>c DEF ScopeTyped
    <3> QED
      BY <1>19, <3>2 DEF ScopeTyped, CallbackWake
  <2>2. CASE CbGoto(k, "end")
    BY <1>19, <2>2 DEF CallbackWake, CbGoto, ScopeTyped, KidRecords
  <2> QED
    BY <1>19, <2>1, <2>2 DEF CallbackWake
<1>20. ASSUME NEW k \in Kids, CallbackSet(k) PROVE ScopeTyped'
  <2>1. kid \in [Kids -> KidRecords] /\ kid' = [kid EXCEPT ![k].cb = "end"]
    BY <1>20 DEF ScopeTyped, CallbackSet, CbGoto
  <2>2. kid' \in [Kids -> KidRecords]
    BY <2>1 DEF KidRecords
  <2>3. \A j \in Kids : kid'[j].cb = "set" => kid[j].cb = "set" /\ kid'[j].w = kid[j].w
    BY <2>1 DEF KidRecords
  <2> QED
    BY <1>20, <2>2, <2>3 DEF ScopeTyped, CallbackSet
<1>21. ASSUME AwaitBody PROVE ScopeTyped'
  BY <1>21 DEF ScopeTyped, TimeoutRecords, GroupRecords, KidRecords, AwaitBody
<1>22. ASSUME CatchInBody PROVE ScopeTyped'
  BY <1>0, <1>22 DEF CatchInBody
<1>23. ASSUME LeaveBody PROVE ScopeTyped'
  BY <1>23 DEF ScopeTyped, TimeoutRecords, GroupRecords, KidRecords, LeaveBody, Outer
<1>24. ASSUME GroupExit PROVE ScopeTyped'
  <2>1. grp' \in GroupRecords
    BY <1>24 DEF ScopeTyped, GroupRecords, GroupExit
  <2> QED
    BY <1>24, <2>1 DEF ScopeTyped, GroupExit
<1>25. ASSUME GroupAbort PROVE ScopeTyped'
  <2>1. CASE At("g_abort") /\ Flag /\ at' = "g_list" /\ UNCHANGED kid
    BY <1>25, <2>1 DEF GroupAbort, Flag, ScopeTyped, GroupRecords
  <2>2. CASE At("g_list") /\ List(Self) /\ at' = "g_kill" /\ UNCHANGED kid
    BY <1>25, <2>2 DEF GroupAbort, List, ScopeTyped, GroupRecords
  <2>3. CASE At("g_kill") /\ Kill(Self) /\ UNCHANGED <<grp, at>>
    <3>1. PICK j \in doomed[Self] : /\ doomed' = [doomed EXCEPT ![Self] = @ \ {j}]
                                /\ kid' = [kid EXCEPT ![j].creq = @ \/ ~Ended(j)]
      BY <2>3 DEF Kill
    <3>2. j \in Kids /\ doomed' \in [Kids \cup {Self} -> SUBSET Kids]
      BY <3>1 DEF ScopeTyped
    <3>a. PICK b \in BOOLEAN : b = (kid[j].creq \/ ~Ended(j))
      OBVIOUS
    <3>b. kid' = [kid EXCEPT ![j].creq = b]
      BY <3>1, <3>a
    <3>3. kid' \in [Kids -> KidRecords]
      BY <3>2, <3>b DEF ScopeTyped, KidRecords
    <3>4. \A i \in Kids : kid'[i].cb = kid[i].cb /\ kid'[i].w = kid[i].w
      BY <3>1, <3>2 DEF ScopeTyped, KidRecords
    <3> QED
      BY <1>25, <2>3, <3>2, <3>3, <3>4 DEF GroupAbort, ScopeTyped
  <2>4. CASE At("g_kill") /\ doomed[Self] = {} /\ at' = "g_clear" /\ UNCHANGED <<grp, doomed, kid>>
    BY <1>25, <2>4 DEF GroupAbort, ScopeTyped
  <2> QED
    BY <1>25, <2>1, <2>2, <2>3, <2>4 DEF GroupAbort
<1>26. ASSUME GroupLoop PROVE ScopeTyped'
  <2>1. CASE at' = "g_end" /\ late' \subseteq Kids /\ UNCHANGED grp
    BY <1>26, <2>1 DEF GroupLoop, ScopeTyped
  <2>2. CASE /\ grp.used # GroupFuts /\ at' = "g_await" /\ UNCHANGED late
             /\ grp' = LET f == CHOOSE f \in GroupFuts : f \notin grp.used IN
                       [grp EXCEPT !.waiter = f, !.used = @ \cup {f}]
    <3>1. PICK f \in GroupFuts : grp' = [grp EXCEPT !.waiter = f, !.used = @ \cup {f}]
      <4>1. grp.used \subseteq GroupFuts
        BY DEF ScopeTyped, GroupRecords
      <4>2. \E f \in GroupFuts : f \notin grp.used
        BY <2>2, <4>1
      <4> QED
        BY <2>2, <4>2
    <3>2. grp' \in GroupRecords /\ grp'.waiter = f
      BY <3>1 DEF ScopeTyped, GroupRecords
    <3>3. f # NoFuture
      BY DEF GroupFuts
    <3> QED
      BY <1>26, <2>2, <3>2, <3>3 DEF GroupLoop, ScopeTyped
  <2> QED
    BY <1>26, <2>1, <2>2 DEF GroupLoop
<1>27. ASSUME GroupAwait PROVE ScopeTyped'
  BY <1>27 DEF ScopeTyped, TimeoutRecords, GroupRecords, KidRecords, GroupAwait
<1>28. ASSUME GroupWoken PROVE ScopeTyped'
  BY <1>28 DEF ScopeTyped, GroupWoken
<1>29. ASSUME GroupClear PROVE ScopeTyped'
  BY <1>29 DEF ScopeTyped, TimeoutRecords, GroupRecords, KidRecords, GroupClear
<1>30. ASSUME GroupEnd PROVE ScopeTyped'
  <2>1. grp' = grp \/ grp' = [grp EXCEPT !.gone = TRUE]
    BY <1>30 DEF GroupEnd, LeaveGroup
  <2>2. grp' \in GroupRecords
    BY <2>1 DEF ScopeTyped, GroupRecords
  <2> QED
    BY <1>30, <2>2 DEF ScopeTyped, GroupEnd, LeaveGroup, Outer
<1>31. ASSUME GroupUncancel PROVE ScopeTyped'
  BY <1>31 DEF ScopeTyped, TimeoutRecords, GroupRecords, KidRecords, GroupUncancel, CallUncancel
<1>32. ASSUME GroupUncancelled PROVE ScopeTyped'
  BY <1>32 DEF ScopeTyped, TimeoutRecords, GroupRecords, KidRecords, GroupUncancelled
<1>33. ASSUME GroupRaise PROVE ScopeTyped'
  <2>1. grp' = grp \/ grp' = [grp EXCEPT !.gone = TRUE]
    BY <1>33 DEF GroupRaise, LeaveGroup
  <2>2. grp' \in GroupRecords
    BY <2>1 DEF ScopeTyped, GroupRecords
  <2> QED
    BY <1>33, <2>2 DEF ScopeTyped, GroupRaise, LeaveGroup, Outer
<1>34. ASSUME GroupAgain PROVE ScopeTyped'
  BY <1>34 DEF ScopeTyped, TimeoutRecords, GroupRecords, KidRecords, GroupAgain, CallUncancel
<1>35. ASSUME GroupRecancel PROVE ScopeTyped'
  BY <1>0, <1>35 DEF GroupRecancel
<1>36. ASSUME GroupRecancelled PROVE ScopeTyped'
  BY <1>36
     DEF ScopeTyped, TimeoutRecords, GroupRecords, KidRecords, GroupRecancelled, LeaveGroup, Outer
<1>37. ASSUME AwaitAfter PROVE ScopeTyped'
  BY <1>37 DEF ScopeTyped, TimeoutRecords, GroupRecords, KidRecords, AwaitAfter
<1>38. ASSUME Reraise PROVE ScopeTyped'
  BY <1>38 DEF ScopeTyped, TimeoutRecords, GroupRecords, KidRecords, Reraise
<1>39. ASSUME EndOfTask PROVE ScopeTyped'
  BY <1>0, <1>39 DEF EndOfTask
<1>40. CASE UNCHANGED vars \/ Rest
  BY <1>0, <1>40 DEF vars, Rest
<1> QED
  BY <1>0, <1>1, <1>2, <1>3, <1>4, <1>5, <1>6, <1>7, <1>8, <1>9, <1>10, <1>11, <1>12, <1>13,
     <1>14, <1>15, <1>16, <1>17, <1>18, <1>19, <1>20, <1>21, <1>22, <1>23, <1>24, <1>25, <1>26, <1>27, <1>28, <1>29, <1>30, <1>31, <1>32, <1>33, <1>34, <1>35, <1>36, <1>37, <1>38, <1>39, <1>40
     DEF Next, TaskStep, BodyStep, GroupStep, KidStep, TimerStep
-----------------------------------------------------------------------------
\* The group.

LEMMA PlaceOfPcStep == PlaceOfPc /\ [Next]_vars => PlaceOfPc'
<1> SUFFICES ASSUME PlaceOfPc, [Next]_vars PROVE PlaceOfPc'
  OBVIOUS
<1> USE DEF At, Goto, futVars, bodyVars, taskVars, cancelVars, PlaceOfPc
<1>1. ASSUME Enter PROVE PlaceOfPc'
  BY <1>1 DEF Enter
<1>2. ASSUME Extend PROVE PlaceOfPc'
  BY <1>2 DEF Extend
<1>3. ASSUME NEW d \in Timers, Fire(d) PROVE PlaceOfPc'
  BY <1>3 DEF Fire
<1>4. ASSUME NEW d \in Timers, OnTimeout(d) PROVE PlaceOfPc'
  BY <1>4 DEF OnTimeout
<1>5. ASSUME OnTimeoutCancel PROVE PlaceOfPc'
  BY <1>5 DEF OnTimeoutCancel, Cancel, scopeVars
<1>6. ASSUME NEW d \in Timers, OnTimeoutEnd(d) PROVE PlaceOfPc'
  BY <1>6 DEF OnTimeoutEnd
<1>7. ASSUME TimeoutExit PROVE PlaceOfPc'
  BY <1>7 DEF TimeoutExit
<1>8. ASSUME TimeoutUncancel PROVE PlaceOfPc'
  BY <1>8 DEF TimeoutUncancel, CallUncancel, Uncancel
<1>9. ASSUME TimeoutEnd PROVE PlaceOfPc'
  BY <1>9 DEF TimeoutEnd
<1>10. ASSUME GroupEnter PROVE PlaceOfPc'
  BY <1>10 DEF GroupEnter
<1>11. ASSUME NEW k \in Kids, CreateTask(k) PROVE PlaceOfPc'
  BY <1>11 DEF CreateTask
<1>12. ASSUME NEW k \in Kids, AddMember(k) PROVE PlaceOfPc'
  BY <1>12 DEF AddMember
<1>13. ASSUME NEW k \in Kids, AddCallback(k) PROVE PlaceOfPc'
  BY <1>13 DEF AddCallback
<1>14. ASSUME NEW k \in Kids, KidEnds(k) PROVE PlaceOfPc'
  BY <1>14 DEF KidEnds
<1>15. ASSUME NEW k \in Kids, OnTaskDone(k) PROVE PlaceOfPc'
  BY <1>15 DEF OnTaskDone
<1>16. ASSUME NEW k \in Kids, CallbackAbort(k) PROVE PlaceOfPc'
  BY <1>16 DEF CallbackAbort
<1>17. ASSUME NEW k \in Kids, CallbackCancel(k) PROVE PlaceOfPc'
  BY <1>17 DEF CallbackCancel, Cancel, scopeVars
<1>18. ASSUME NEW k \in Kids, CallbackCancelled(k) PROVE PlaceOfPc'
  BY <1>18 DEF CallbackCancelled
<1>19. ASSUME NEW k \in Kids, CallbackWake(k) PROVE PlaceOfPc'
  BY <1>19 DEF CallbackWake
<1>20. ASSUME NEW k \in Kids, CallbackSet(k) PROVE PlaceOfPc'
  BY <1>20 DEF CallbackSet
<1>21. ASSUME AwaitBody PROVE PlaceOfPc'
  BY <1>21 DEF AwaitBody, Await
<1>22. ASSUME CatchInBody PROVE PlaceOfPc'
  BY <1>22 DEF CatchInBody, Catch, scopeVars
<1>23. ASSUME LeaveBody PROVE PlaceOfPc'
  BY <1>23 DEF LeaveBody, Outer, Catch
<1>24. ASSUME GroupExit PROVE PlaceOfPc'
  BY <1>24 DEF GroupExit
<1>25. ASSUME GroupAbort PROVE PlaceOfPc'
  BY <1>25 DEF GroupAbort
<1>26. ASSUME GroupLoop PROVE PlaceOfPc'
  BY <1>26 DEF GroupLoop
<1>27. ASSUME GroupAwait PROVE PlaceOfPc'
  BY <1>27 DEF GroupAwait, Await
<1>28. ASSUME GroupWoken PROVE PlaceOfPc'
  BY <1>28 DEF GroupWoken, Catch
<1>29. ASSUME GroupClear PROVE PlaceOfPc'
  BY <1>29 DEF GroupClear
<1>30. ASSUME GroupEnd PROVE PlaceOfPc'
  BY <1>30 DEF GroupEnd, LeaveGroup, Outer
<1>31. ASSUME GroupUncancel PROVE PlaceOfPc'
  BY <1>31 DEF GroupUncancel, CallUncancel, Uncancel
<1>32. ASSUME GroupUncancelled PROVE PlaceOfPc'
  BY <1>32 DEF GroupUncancelled
<1>33. ASSUME GroupRaise PROVE PlaceOfPc'
  BY <1>33 DEF GroupRaise, LeaveGroup, Outer
<1>34. ASSUME GroupAgain PROVE PlaceOfPc'
  BY <1>34 DEF GroupAgain, CallUncancel, Uncancel
<1>35. ASSUME GroupRecancel PROVE PlaceOfPc'
  BY <1>35 DEF GroupRecancel, Cancel, scopeVars
<1>36. ASSUME GroupRecancelled PROVE PlaceOfPc'
  BY <1>36 DEF GroupRecancelled, LeaveGroup, Outer
<1>37. ASSUME AwaitAfter PROVE PlaceOfPc'
  BY <1>37 DEF AwaitAfter, Await
<1>38. ASSUME Reraise PROVE PlaceOfPc'
  BY <1>38 DEF Reraise
<1>39. ASSUME EndOfTask PROVE PlaceOfPc'
  BY <1>39 DEF EndOfTask, Return, Fail, Escape, Settle, scopeVars
<1>40. CASE AwaitStep /\ UNCHANGED scopeVars
  BY <1>40 DEF AwaitStep, Arm, Ready, RaiseDue, Resume, Unarm, Read, scopeVars
<1>41. CASE UncancelStep /\ UNCHANGED scopeVars
  BY <1>41 DEF UncancelStep, UncancelStore, UncancelTest, Withdraw, scopeVars
<1>42. ASSUME NEW c \in Cancellers, CancelStep(c), UNCHANGED scopeVars PROVE PlaceOfPc'
  BY <1>42 DEF CancelStep, CancelCount, CancelLook, CancelFuture, CancelDeliver, scopeVars
<1>43. ASSUME NEW o, Cancel(o), UNCHANGED scopeVars PROVE PlaceOfPc'
  BY <1>43 DEF Cancel, scopeVars
<1>44. ASSUME NEW f \in Futs, CompleteFuture(f) \/ WakeFuture(f), UNCHANGED scopeVars
       PROVE  PlaceOfPc'
  BY <1>44 DEF CompleteFuture, WakeFuture, scopeVars
<1>45. CASE UNCHANGED vars \/ Rest
  BY <1>45 DEF vars, Rest, scopeVars
<1> QED
  BY <1>1, <1>2, <1>3, <1>4, <1>5, <1>6, <1>7, <1>8, <1>9, <1>10, <1>11, <1>12, <1>13, <1>14,
     <1>15, <1>16, <1>17, <1>18, <1>19, <1>20, <1>21, <1>22, <1>23, <1>24, <1>25, <1>26, <1>27, <1>28, <1>29, <1>30, <1>31, <1>32, <1>33, <1>34, <1>35, <1>36, <1>37, <1>38, <1>39, <1>40, <1>41, <1>42, <1>43, <1>44, <1>45
     DEF Next, TaskStep, BodyStep, GroupStep, KidStep, TimerStep

\* What a step does to the kids and to the group.  The task adds a kid in three steps; the
\* kid ends; its callback takes it out and goes on.
LEMMA CbGotoEffect ==
  ASSUME ScopeTyped, NEW k \in Kids, NEW l, CbGoto(k, l)
  PROVE  /\ kid'[k].cb = l /\ kid'[k].st = kid[k].st
         /\ \A j \in Kids : j # k => kid'[j] = kid[j]
<1>1. kid \in [Kids -> KidRecords]
  BY DEF ScopeTyped
<1> QED
  BY <1>1 DEF CbGoto, KidRecords

LEMMA CreateEffect ==
  ASSUME ScopeTyped, NEW k \in Kids, CreateTask(k)
  PROVE  /\ at = "body" /\ k \in app.kids /\ kid[k].st = "unborn" /\ UNCHANGED <<grp, app>>
         /\ \A j \in Kids : j # k => kid'[j] = kid[j]
         /\ \/ kid' = kid /\ at' = "g_exit"
            \/ kid'[k].st = "run" /\ kid'[k].cb = "add" /\ at' = "add"
<1>1. kid \in [Kids -> KidRecords]
  BY DEF ScopeTyped
<1>2. at = "body" /\ k \in app.kids /\ kid[k].st = "unborn" /\ UNCHANGED <<grp, app>>
  BY DEF CreateTask, At
<1>3. CASE kid' = kid /\ at' = "g_exit"
  BY <1>2, <1>3
<1>4. CASE kid' = [kid EXCEPT ![k] = [st |-> "run", creq |-> FALSE, cb |-> "add", w |-> NoFuture]]
           /\ at' = "add"
  BY <1>1, <1>2, <1>4
<1> QED
  BY <1>3, <1>4 DEF CreateTask, Goto

LEMMA AddMemberEffect ==
  ASSUME ScopeTyped, NEW k \in Kids, AddMember(k)
  PROVE  /\ at = "add" /\ pc = "run" /\ kid[k].cb = "add" /\ UNCHANGED <<at, app>>
         /\ kid'[k].cb = "register" /\ kid'[k].st = kid[k].st
         /\ \A j \in Kids : j # k => kid'[j] = kid[j]
         /\ grp'.members = grp.members \cup {k} /\ grp'.errors = grp.errors /\ grp'.gone = grp.gone
         /\ grp'.req = grp.req /\ grp'.base = grp.base
<1>1. kid \in [Kids -> KidRecords] /\ grp \in GroupRecords
  BY DEF ScopeTyped
<1>2. kid' = [kid EXCEPT ![k].cb = "register"] /\ grp' = [grp EXCEPT !.members = @ \cup {k}]
  BY DEF AddMember
<1>3. /\ grp'.members = grp.members \cup {k} /\ grp'.errors = grp.errors /\ grp'.gone = grp.gone
      /\ grp'.req = grp.req /\ grp'.base = grp.base
  BY <1>1, <1>2 DEF GroupRecords
<1>4. /\ kid'[k].cb = "register" /\ kid'[k].st = kid[k].st
      /\ \A j \in Kids : j # k => kid'[j] = kid[j]
  BY <1>1, <1>2 DEF KidRecords
<1> QED
  BY <1>3, <1>4 DEF AddMember, At

LEMMA AddCallbackEffect ==
  ASSUME ScopeTyped, NEW k \in Kids, AddCallback(k)
  PROVE  /\ at = "add" /\ at' = "body" /\ kid[k].cb = "register" /\ UNCHANGED <<grp, app>>
         /\ kid'[k].cb = IF Ended(k) THEN "queued" ELSE "added"
         /\ kid'[k].st = kid[k].st
         /\ \A j \in Kids : j # k => kid'[j] = kid[j]
<1>1. kid \in [Kids -> KidRecords]
  BY DEF ScopeTyped
<1>2. PICK l : l = IF Ended(k) THEN "queued" ELSE "added"
  OBVIOUS
<1>3. kid' = [kid EXCEPT ![k].cb = l]
  BY <1>2 DEF AddCallback
<1>4. kid'[k].cb = l /\ kid'[k].st = kid[k].st /\ \A j \in Kids : j # k => kid'[j] = kid[j]
  BY <1>1, <1>3 DEF KidRecords
<1> QED
  BY <1>2, <1>4 DEF AddCallback, At, Goto

LEMMA KidEndsEffect ==
  ASSUME ScopeTyped, NEW k \in Kids, KidEnds(k)
  PROVE  /\ kid[k].st = "run" /\ kid'[k].st \in {"ok", "error", "base", "cancelled"}
         /\ kid'[k].cb = IF kid[k].cb = "added" THEN "queued" ELSE kid[k].cb
         /\ \A j \in Kids : j # k => kid'[j] = kid[j]
         /\ UNCHANGED <<grp, app, at>>
<1>1. kid \in [Kids -> KidRecords]
  BY DEF ScopeTyped
<1>2. app.fates \subseteq {"ok", "error", "base"}
  BY AppsAssumption DEF ScopeTyped
<1>3. PICK e \in {"ok", "error", "base", "cancelled"} :
        kid' = [kid EXCEPT ![k] = [st |-> e, creq |-> @.creq, w |-> @.w,
                                   cb |-> IF @.cb = "added" THEN "queued" ELSE @.cb]]
  BY <1>2 DEF KidEnds
<1>4. PICK r : r = [st |-> e, creq |-> kid[k].creq, w |-> kid[k].w,
                    cb |-> IF kid[k].cb = "added" THEN "queued" ELSE kid[k].cb]
  OBVIOUS
<1>5. kid' = [kid EXCEPT ![k] = r] /\ r.st = e
      /\ r.cb = IF kid[k].cb = "added" THEN "queued" ELSE kid[k].cb
  BY <1>3, <1>4
<1> QED
  BY <1>1, <1>5 DEF KidEnds

LEMMA OnTaskDoneEffect ==
  ASSUME ScopeTyped, NEW k \in Kids, OnTaskDone(k)
  PROVE  LET cancels == Failed(k) /\ ~grp.aborting /\ ~grp.req /\ ~grp.gone /\ tstate = "PENDING" IN
         /\ kid[k].cb = "queued" /\ kid'[k].cb = (IF cancels THEN "abort" ELSE "wake")
         /\ kid'[k].st = kid[k].st
         /\ \A j \in Kids : j # k => kid'[j] = kid[j]
         /\ grp'.members = grp.members \ {k}
         /\ grp'.errors = IF Failed(k) THEN grp.errors \cup {k} ELSE grp.errors
         /\ grp'.gone = grp.gone
         /\ grp'.req = (grp.req \/ cancels)
         /\ UNCHANGED <<cancelVars, app, at, exc, late, tmo, tpc>>
<1> DEFINE cancels == Failed(k) /\ ~grp.aborting /\ ~grp.req /\ ~grp.gone /\ tstate = "PENDING"
<1>1. grp \in GroupRecords
  BY DEF ScopeTyped
<1>2. PICK b \in BOOLEAN : b = cancels
  OBVIOUS
<1>3. grp' = [grp EXCEPT !.members = @ \ {k}, !.errors = IF Failed(k) THEN @ \cup {k} ELSE @,
                         !.base = @ \/ kid[k].st = "base", !.req = @ \/ b]
  BY <1>2 DEF OnTaskDone
<1>4. /\ grp'.members = grp.members \ {k}
      /\ grp'.errors = IF Failed(k) THEN grp.errors \cup {k} ELSE grp.errors
      /\ grp'.gone = grp.gone /\ grp'.req = (grp.req \/ b)
  BY <1>1, <1>3 DEF GroupRecords
<1>5. PICK l : l = IF b THEN "abort" ELSE "wake"
  OBVIOUS
<1>6. CbGoto(k, l)
  BY <1>2, <1>5 DEF OnTaskDone
<1>7. kid'[k].cb = l /\ kid'[k].st = kid[k].st /\ \A j \in Kids : j # k => kid'[j] = kid[j]
  BY <1>6, CbGotoEffect
<1>8. kid[k].cb = "queued" /\ UNCHANGED <<cancelVars, app, at, exc, late, tmo, tpc>>
  BY DEF OnTaskDone
<1> QED
  BY <1>2, <1>4, <1>5, <1>7, <1>8

\* The fields of the group that the steps of the task leave alone, and those of the kids.
GroupKept ==
  grp'.members = grp.members /\ grp'.errors = grp.errors /\ grp'.req = grp.req
KidsKept == \A j \in Kids : kid'[j].st = kid[j].st /\ kid'[j].cb = kid[j].cb

LEMMA KillEffect ==
  ASSUME ScopeTyped, NEW a \in Kids \cup {Self}, Kill(a)
  PROVE  KidsKept
<1>1. kid \in [Kids -> KidRecords]
  BY DEF ScopeTyped
<1>2. PICK k \in doomed[a] : kid' = [kid EXCEPT ![k].creq = @ \/ ~Ended(k)]
  BY DEF Kill
<1> QED
  BY <1>1, <1>2 DEF KidRecords, KidsKept

LEMMA FlagEffect ==
  ASSUME ScopeTyped, Flag
  PROVE  GroupKept /\ grp'.gone = grp.gone /\ grp'.base = grp.base
<1>1. grp \in GroupRecords
  BY DEF ScopeTyped
<1> QED
  BY <1>1 DEF GroupRecords, Flag, GroupKept

LEMMA CallbackAbortEffect ==
  ASSUME ScopeTyped, NEW k \in Kids, CallbackAbort(k)
  PROVE  /\ kid[k].cb \in {"abort", "list", "kill"} /\ kid'[k].cb \in {"list", "kill", "cancel"}
         /\ \A j \in Kids : kid'[j].st = kid[j].st /\ (j # k => kid'[j].cb = kid[j].cb)
         /\ GroupKept /\ grp'.gone = grp.gone /\ grp'.base = grp.base
         /\ UNCHANGED <<cancelVars, app, at, exc, late, tmo, tpc>>
<1>0. UNCHANGED <<cancelVars, app, at, exc, late, tmo, tpc>>
  BY DEF CallbackAbort
<1>1. CASE kid[k].cb = "abort" /\ Flag /\ CbGoto(k, "list")
  BY <1>0, <1>1, FlagEffect, CbGotoEffect
<1>2. CASE kid[k].cb = "list" /\ List(k) /\ CbGoto(k, "kill")
  BY <1>0, <1>2, CbGotoEffect DEF List, GroupKept
<1>3. CASE kid[k].cb = "kill" /\ Kill(k) /\ UNCHANGED grp
  BY <1>0, <1>3, KillEffect DEF KidsKept, GroupKept
<1>4. CASE kid[k].cb = "kill" /\ doomed[k] = {} /\ CbGoto(k, "cancel") /\ UNCHANGED <<grp, doomed>>
  BY <1>0, <1>4, CbGotoEffect DEF GroupKept
<1> QED
  BY <1>1, <1>2, <1>3, <1>4 DEF CallbackAbort

LEMMA CallbackWakeEffect ==
  ASSUME ScopeTyped, NEW k \in Kids, CallbackWake(k)
  PROVE  /\ kid[k].cb = "wake" /\ kid'[k].cb \in {"set", "end"} /\ kid'[k].st = kid[k].st
         /\ \A j \in Kids : j # k => kid'[j] = kid[j]
         /\ UNCHANGED <<cancelVars, app, at, exc, grp, late, tmo, tpc>>
<1>0. kid[k].cb = "wake" /\ UNCHANGED <<cancelVars, app, at, exc, grp, late, tmo, tpc>>
  BY DEF CallbackWake
<1>1. CASE CbGoto(k, "end")
  BY <1>0, <1>1, CbGotoEffect
<1>2. CASE kid' = [kid EXCEPT ![k] = [st |-> @.st, creq |-> @.creq, cb |-> "set", w |-> grp.waiter]]
  <2>1. kid \in [Kids -> KidRecords]
    BY DEF ScopeTyped
  <2> QED
    BY <1>0, <1>2, <2>1
<1> QED
  BY <1>1, <1>2 DEF CallbackWake

\* The steps of the coroutine from one place to another.
LEMMA GroupAbortEffect ==
  ASSUME ScopeTyped, GroupAbort
  PROVE  /\ at \in {"g_abort", "g_list", "g_kill"} /\ at' \in {"g_list", "g_kill", "g_clear"}
         /\ KidsKept /\ GroupKept /\ grp'.gone = grp.gone /\ grp'.base = grp.base
         /\ UNCHANGED <<cancelVars, app, exc, late, tmo, tpc>>
<1>0. UNCHANGED <<cancelVars, app, exc, late, tmo, tpc>>
  BY DEF GroupAbort
<1>1. CASE At("g_abort") /\ Flag /\ Goto("g_list") /\ UNCHANGED kid
  BY <1>0, <1>1, FlagEffect DEF At, Goto, KidsKept
<1>2. CASE At("g_list") /\ List(Self) /\ Goto("g_kill") /\ UNCHANGED kid
  BY <1>0, <1>2 DEF At, Goto, KidsKept, GroupKept, List
<1>3. CASE At("g_kill") /\ Kill(Self) /\ UNCHANGED <<grp, at>>
  BY <1>0, <1>3, KillEffect DEF At, GroupKept
<1>4. CASE At("g_kill") /\ doomed[Self] = {} /\ Goto("g_clear") /\ UNCHANGED <<grp, doomed, kid>>
  BY <1>0, <1>4 DEF At, Goto, KidsKept, GroupKept
<1> QED
  BY <1>1, <1>2, <1>3, <1>4 DEF GroupAbort

LEMMA GroupFieldsEffect ==
  ASSUME ScopeTyped
  PROVE  /\ GroupEnter \/ GroupClear \/ (GroupLoop /\ grp.members # {})
              => GroupKept /\ grp'.gone = grp.gone /\ grp'.base = grp.base
         /\ GroupExit => GroupKept /\ grp'.gone = grp.gone /\ grp'.base = (grp.base \/ exc = "base")
         /\ \A e : LeaveGroup(e) => GroupKept /\ grp'.gone /\ grp'.base = grp.base
<1>1. grp \in GroupRecords
  BY DEF ScopeTyped
<1>2. GroupEnter \/ GroupClear => GroupKept /\ grp'.gone = grp.gone /\ grp'.base = grp.base
  BY <1>1 DEF GroupEnter, GroupClear, GroupRecords, GroupKept
<1>3. ASSUME GroupLoop, grp.members # {}
      PROVE  GroupKept /\ grp'.gone = grp.gone /\ grp'.base = grp.base
  <2>1. PICK f : grp' = [grp EXCEPT !.waiter = f, !.used = @ \cup {f}]
    BY <1>3 DEF GroupLoop
  <2> QED
    BY <1>1, <2>1 DEF GroupRecords, GroupKept
<1>4. GroupExit => GroupKept /\ grp'.gone = grp.gone /\ grp'.base = (grp.base \/ exc = "base")
  BY <1>1 DEF GroupExit, GroupRecords, GroupKept
<1>5. ASSUME NEW e, LeaveGroup(e) PROVE GroupKept /\ grp'.gone /\ grp'.base = grp.base
  BY <1>1, <1>5 DEF LeaveGroup, GroupRecords, GroupKept
<1> QED
  BY <1>2, <1>3, <1>4, <1>5

LEMMA HeldInvStep == ScopeTyped /\ HeldInv /\ [Next]_vars => HeldInv'
<1> SUFFICES ASSUME ScopeTyped, HeldInv, [Next]_vars PROVE HeldInv'
  OBVIOUS
<1> USE DEF HeldInv
\* A step that starts to add no kid.
<1>g. ASSUME \A j \in Kids : kid'[j].cb \in {"add", "register"} => kid[j].cb \in {"add", "register"}
      PROVE  AddsOne'
  BY <1>g DEF AddsOne
\* A step that leaves the kids alone.
<1>a. ASSUME KidsKept, GroupKept, app' = app, at = "add" => at' = "add",
             at' \in LeavePlaces \cup OuterPlaces => grp.members = {},
             grp'.gone => at' \in OuterPlaces
      PROVE  HeldInv'
  <2>1. KidsHeld'
    BY <1>a DEF KidsHeld, KidsKept, GroupKept, Ended, Failed
  <2>2. GroupStaysEmpty'
    BY <1>a DEF GroupStaysEmpty, GroupKept
  <2>3. AddsOne'
    BY <1>a, <1>g DEF KidsKept
  <2> QED
    BY <2>1, <2>2, <2>3
<1>b. ASSUME UNCHANGED <<kid, grp, app, at>> PROVE HeldInv'
  BY <1>a, <1>b DEF KidsKept, GroupKept, GroupStaysEmpty
<1>c. ASSUME UNCHANGED <<kid, grp, app>>, at # "add", at \in LeavePlaces \cup OuterPlaces,
             at' \in LeavePlaces \cup OuterPlaces, at \in OuterPlaces => at' \in OuterPlaces
      PROVE  HeldInv'
  BY <1>a, <1>c DEF KidsKept, GroupKept, GroupStaysEmpty
<1>d. ASSUME UNCHANGED <<kid, app>>, GroupKept, grp'.gone = grp.gone, at # "add",
             at \notin OuterPlaces, at' \notin LeavePlaces \cup OuterPlaces
      PROVE  HeldInv'
  BY <1>a, <1>d DEF KidsKept, GroupStaysEmpty
<1> USE DEF LeavePlaces, OuterPlaces
\* The kids.
<1>1. ASSUME NEW k \in Kids, CreateTask(k) PROVE HeldInv'
  <2>0. /\ at = "body" /\ k \in app.kids /\ kid[k].st = "unborn" /\ UNCHANGED <<grp, app>>
        /\ \A j \in Kids : j # k => kid'[j] = kid[j]
        /\ \/ kid' = kid /\ at' = "g_exit"
           \/ kid'[k].st = "run" /\ kid'[k].cb = "add" /\ at' = "add"
    BY <1>1, CreateEffect
  <2>1. KidsHeld'
    BY <2>0 DEF KidsHeld, Ended, Failed
  <2>2. GroupStaysEmpty'
    BY <2>0 DEF GroupStaysEmpty
  <2>3. AddsOne'
    <3>1. \A j \in Kids : kid[j].cb \notin {"add", "register"}
      BY <2>0 DEF KidsHeld
    <3> QED
      BY <2>0, <3>1 DEF AddsOne
  <2> QED
    BY <2>1, <2>2, <2>3
<1>2. ASSUME NEW k \in Kids, AddMember(k) PROVE HeldInv'
  <2>0. /\ at = "add" /\ kid[k].cb = "add" /\ UNCHANGED <<at, app>>
        /\ kid'[k].cb = "register" /\ kid'[k].st = kid[k].st
        /\ \A j \in Kids : j # k => kid'[j] = kid[j]
        /\ grp'.members = grp.members \cup {k} /\ grp'.errors = grp.errors /\ grp'.gone = grp.gone
    BY <1>2, AddMemberEffect
  <2>1. KidsHeld'
    BY <2>0 DEF KidsHeld, Ended, Failed
  <2>2. GroupStaysEmpty'
    BY <2>0 DEF GroupStaysEmpty
  <2>3. AddsOne'
    BY <2>0, <1>g
  <2> QED
    BY <2>1, <2>2, <2>3
<1>3. ASSUME NEW k \in Kids, AddCallback(k) PROVE HeldInv'
  <2>0. /\ at = "add" /\ at' = "body" /\ kid[k].cb = "register" /\ UNCHANGED <<grp, app>>
        /\ kid'[k].cb = IF Ended(k) THEN "queued" ELSE "added"
        /\ kid'[k].st = kid[k].st
        /\ \A j \in Kids : j # k => kid'[j] = kid[j]
    BY <1>3, AddCallbackEffect
  <2>1. ASSUME NEW j \in Kids
        PROVE  /\ (kid[j].st = "unborn" <=> kid[j].cb = "none")'
               /\ (kid[j].st # "unborn" => j \in app.kids)'
               /\ (kid[j].cb \in {"add", "register"} => at = "add")'
               /\ (j \in grp.members <=> kid[j].cb \in {"register", "added", "queued"})'
               /\ (kid[j].cb \notin {"none", "add", "register", "added"} => Ended(j))'
               /\ (kid[j].cb \notin {"none", "add", "register", "added", "queued"}
                     => (Failed(j) => j \in grp.errors))'
    <3>1. CASE j = k
      BY <2>0, <3>1 DEF KidsHeld, Ended
    <3>2. CASE j # k
      <4>1. kid[j].cb \notin {"add", "register"}
        BY <2>0, <3>2 DEF AddsOne
      <4> QED
        BY <2>0, <3>2, <4>1 DEF KidsHeld, Ended, Failed
    <3> QED
      BY <3>1, <3>2
  <2>1a. KidsHeld'
    BY <2>1 DEF KidsHeld
  <2>2. GroupStaysEmpty'
    BY <2>0 DEF GroupStaysEmpty
  <2>3. AddsOne'
    BY <2>0, <1>g
  <2> QED
    BY <2>1a, <2>2, <2>3
<1>4. ASSUME NEW k \in Kids, KidEnds(k) PROVE HeldInv'
  <2>0. /\ kid[k].st = "run" /\ kid'[k].st \in {"ok", "error", "base", "cancelled"}
        /\ kid'[k].cb = IF kid[k].cb = "added" THEN "queued" ELSE kid[k].cb
        /\ \A j \in Kids : j # k => kid'[j] = kid[j]
        /\ UNCHANGED <<grp, app, at>>
    BY <1>4, KidEndsEffect
  <2>1. KidsHeld'
    BY <2>0 DEF KidsHeld, Ended, Failed
  <2>2. GroupStaysEmpty'
    BY <2>0 DEF GroupStaysEmpty
  <2>3. AddsOne'
    BY <2>0, <1>g
  <2> QED
    BY <2>1, <2>2, <2>3
<1>5. ASSUME NEW k \in Kids, OnTaskDone(k) PROVE HeldInv'
  <2>0. /\ kid[k].cb = "queued" /\ kid'[k].cb \in {"abort", "wake"} /\ kid'[k].st = kid[k].st
        /\ \A j \in Kids : j # k => kid'[j] = kid[j]
        /\ grp'.members = grp.members \ {k}
        /\ grp'.errors = IF Failed(k) THEN grp.errors \cup {k} ELSE grp.errors
        /\ grp'.gone = grp.gone /\ UNCHANGED <<app, at>>
    BY <1>5, OnTaskDoneEffect
  <2>1. KidsHeld'
    BY <2>0 DEF KidsHeld, Ended, Failed
  <2>2. GroupStaysEmpty'
    BY <2>0 DEF GroupStaysEmpty
  <2>3. AddsOne'
    BY <2>0, <1>g
  <2> QED
    BY <2>1, <2>2, <2>3
\* A callback that has taken its kid out goes on.
<1>e. ASSUME NEW k \in Kids, UNCHANGED <<app, at>>, GroupKept, grp'.gone = grp.gone,
             kid[k].cb \in {"abort", "list", "kill", "cancel", "wake", "set", "end"},
             kid'[k].cb \in {"abort", "list", "kill", "cancel", "wake", "set", "end"},
             \A j \in Kids : kid'[j].st = kid[j].st /\ (j # k => kid'[j].cb = kid[j].cb)
      PROVE  HeldInv'
  <2>1. KidsHeld'
    BY <1>e DEF KidsHeld, Ended, Failed, GroupKept
  <2>2. GroupStaysEmpty'
    BY <1>e DEF GroupStaysEmpty, GroupKept
  <2>3. AddsOne'
    BY <1>e, <1>g
  <2> QED
    BY <2>1, <2>2, <2>3
<1>6. ASSUME NEW k \in Kids, CallbackAbort(k) PROVE HeldInv'
  BY <1>6, <1>e, CallbackAbortEffect
<1>7. ASSUME NEW k \in Kids, CallbackCancelled(k) PROVE HeldInv'
  <2>1. CbGoto(k, "wake") /\ kid[k].cb = "cancel" /\ UNCHANGED <<app, at, grp>>
    BY <1>7 DEF CallbackCancelled
  <2> QED
    BY <2>1, <1>e, CbGotoEffect DEF GroupKept
<1>8. ASSUME NEW k \in Kids, CallbackWake(k) PROVE HeldInv'
  BY <1>8, <1>e, CallbackWakeEffect DEF GroupKept
<1>9. ASSUME NEW k \in Kids, CallbackSet(k) PROVE HeldInv'
  <2>1. CbGoto(k, "end") /\ kid[k].cb = "set" /\ UNCHANGED <<app, at, grp>>
    BY <1>9 DEF CallbackSet
  <2> QED
    BY <2>1, <1>e, CbGotoEffect DEF GroupKept
\* The coroutine.
<1>10. CASE Enter
  BY <1>10, <1>d DEF Enter, At, Goto, GroupKept
<1>11. CASE GroupEnter
  BY <1>11, <1>d, GroupFieldsEffect DEF GroupEnter, At, Goto
<1>12. CASE LeaveBody
  <2>0. at = "body" /\ UNCHANGED <<kid, app, grp>>
    BY <1>12 DEF LeaveBody, At
  <2>1. CASE app.kids # {}
    <3>1. at' = "g_exit"
      BY <1>12, <2>1 DEF LeaveBody, Goto
    <3> QED
      BY <2>0, <3>1, <1>d DEF GroupKept
  <2>2. CASE app.kids = {}
    <3>1. at' \in OuterPlaces
      BY <1>12, <2>2 DEF LeaveBody, Goto, Outer
    <3>2. grp.members \subseteq Kids
      BY DEF ScopeTyped, GroupRecords
    <3>3. grp.members = {}
      BY <2>2, <3>2 DEF KidsHeld
    <3> QED
      BY <1>a, <2>0, <3>1, <3>3 DEF KidsKept, GroupKept
  <2> QED
    BY <2>1, <2>2
<1>13. CASE GroupExit
  BY <1>13, <1>d, GroupFieldsEffect DEF GroupExit, At, Goto
<1>14. CASE GroupAbort
  BY <1>14, <1>a, GroupAbortEffect DEF GroupStaysEmpty
<1>15. CASE GroupLoop
  <2>1. CASE grp.members = {}
    <3>1. at = "g_loop" /\ at' = "g_end" /\ UNCHANGED <<kid, app, grp>>
      BY <1>15, <2>1 DEF GroupLoop, At, Goto
    <3> QED
      BY <1>a, <2>1, <3>1 DEF KidsKept, GroupKept, GroupStaysEmpty
  <2>2. CASE grp.members # {}
    <3>1. at = "g_loop" /\ at' = "g_await" /\ UNCHANGED <<kid, app>>
      BY <1>15, <2>2 DEF GroupLoop, At, Goto
    <3> QED
      BY <1>15, <1>d, <2>2, <3>1, GroupFieldsEffect
  <2> QED
    BY <2>1, <2>2
<1>16. CASE GroupAwait \/ GroupWoken
  BY <1>16, <1>d DEF GroupAwait, GroupWoken, At, Goto, GroupKept
<1>17. CASE GroupClear
  BY <1>17, <1>d, GroupFieldsEffect DEF GroupClear, At, Goto
<1>f. ASSUME NEW e, LeaveGroup(e), at \in LeavePlaces, UNCHANGED <<kid, app>> PROVE HeldInv'
  <2>1. at' \in OuterPlaces
    BY <1>f DEF LeaveGroup, Goto, Outer
  <2> QED
    BY <1>a, <1>f, <2>1, GroupFieldsEffect DEF KidsKept, GroupStaysEmpty
<1>18. CASE GroupEnd
  <2>1. at = "g_end" /\ UNCHANGED <<kid, app>>
    BY <1>18 DEF GroupEnd, At
  <2>2. LeaveGroup("base") \/ (UNCHANGED grp /\ at' \in {"g_uncancel", "g_raise"})
    BY <1>18 DEF GroupEnd, Goto
  <2> QED
    BY <1>c, <1>f, <2>1, <2>2
<1>19. CASE GroupRaise
  <2>1. at = "g_raise" /\ UNCHANGED <<kid, app>>
    BY <1>19 DEF GroupRaise, At
  <2>2. (\E e : LeaveGroup(e)) \/ (UNCHANGED grp /\ at' = "g_again")
    BY <1>19 DEF GroupRaise, Goto
  <2> QED
    BY <1>c, <1>f, <2>1, <2>2
<1>20. CASE GroupRecancelled
  BY <1>20, <1>f DEF GroupRecancelled, At
<1>21. CASE GroupUncancel \/ GroupAgain \/ TimeoutUncancel
  BY <1>21, <1>c DEF GroupUncancel, GroupAgain, TimeoutUncancel, CallUncancel, At, Goto
<1>22. CASE GroupUncancelled
  BY <1>22, <1>c DEF GroupUncancelled, At, Goto
<1>23. CASE TimeoutExit
  BY <1>23, <1>c DEF TimeoutExit, At, Goto
<1>24. CASE TimeoutEnd \/ AwaitAfter \/ Reraise
  BY <1>24, <1>c DEF TimeoutEnd, AwaitAfter, Reraise, At, Goto
\* The rest moves neither the coroutine nor the group.
<1>25. ASSUME NEW d \in Timers, Fire(d) \/ OnTimeout(d) \/ OnTimeoutEnd(d) PROVE HeldInv'
  BY <1>25, <1>b DEF Fire, OnTimeout, OnTimeoutEnd
<1>26. CASE Extend \/ AwaitBody
  BY <1>26, <1>b DEF Extend, AwaitBody
<1>27. CASE UNCHANGED scopeVars
  BY <1>27, <1>b DEF scopeVars
<1>28. CASE Rest \/ UNCHANGED vars
  BY <1>28, <1>27 DEF Rest, vars
<1> QED
  BY <1>1, <1>2, <1>3, <1>4, <1>5, <1>6, <1>7, <1>8, <1>9, <1>10, <1>11, <1>12, <1>13, <1>14, <1>15,
     <1>16, <1>17, <1>18, <1>19, <1>20, <1>21, <1>22, <1>23, <1>24, <1>25, <1>26, <1>27, <1>28
     DEF Next, TaskStep, BodyStep, GroupStep, KidStep, TimerStep, EndOfTask, CatchInBody,
         CallbackCancel, OnTimeoutCancel, GroupRecancel

-----------------------------------------------------------------------------
\* What holds whoever cancels.

BaseInv == TaskInv /\ ScopeTyped /\ GroupInv

LEMMA BaseInit == Init => BaseInv
<1> SUFFICES ASSUME Init PROVE BaseInv
  OBVIOUS
<1> USE DEF Init
<1>1. TaskInv
  <2>1. TaskTyped
    BY FutsAssumption DEF TaskInit, TaskTyped, States, TaskPCs, CancelRecords, CancelPCs
  <2>2. \A c \in Cancellers : ca[c].pc = "start"
    BY DEF TaskInit
  <2>3. WaiterIsFut /\ EventsFollow /\ DueIsMissed
    BY DEF TaskInit, WaiterIsFut, EventsFollow, DueIsMissed
  <2>4. AimIsFut
    BY <2>2 DEF AimIsFut
  <2> QED
    BY <2>1, <2>3, <2>4 DEF TaskInv
<1>2. \A k \in Kids : kid[k].st = "unborn" /\ kid[k].cb = "none"
  BY DEF GroupInit
<1>3. grp.members = {} /\ ~grp.gone /\ at = "enter" /\ pc = "run" /\ tstate = "PENDING"
  BY DEF GroupInit, TaskInit
<1>4. ScopeTyped
  <2>1. tmo \in TimeoutRecords /\ tpc \in [Timers -> {"idle", "armed", "fired", "cancel"}]
    BY DEF TimeoutInit, TimeoutRecords
  <2>2. grp \in GroupRecords
    BY DEF GroupInit, GroupRecords
  <2>3. kid \in [Kids -> KidRecords]
    BY DEF GroupInit, KidRecords, KidStates, CallbackPCs
  <2>4. doomed \in [Kids \cup {Self} -> SUBSET Kids] /\ late \in SUBSET Kids /\ prop \in BOOLEAN
    BY DEF GroupInit
  <2> QED
    BY <1>2, <2>1, <2>2, <2>3, <2>4 DEF ScopeTyped, Places
<1>5. GroupInv
  BY <1>2, <1>3
     DEF GroupInv, PlaceOfPc, HeldInv, KidsHeld, AddsOne, GroupStaysEmpty, LeavePlaces, OuterPlaces
<1> QED
  BY <1>1, <1>4, <1>5 DEF BaseInv

LEMMA BaseStep == BaseInv /\ [Next]_vars => BaseInv'
  BY StepsAreMoves, TaskInvStep, ScopeTypedStep, PlaceOfPcStep, HeldInvStep DEF BaseInv, GroupInv

LEMMA BaseAlways == Spec => []BaseInv
  BY BaseInit, BaseStep, PTL DEF Spec

\* The task, its scopes, the kids and the threads that cancel are always in a state the
\* operations of Task, Timeout and TaskGroup can leave them in.
THEOREM TypeCorrect == Spec => []TypeOK
<1>1. ASSUME BaseInv PROVE TypeOK
  <2> USE <1>1 DEF BaseInv, TaskInv
  <2>1. \A c \in Cancellers : ca[c].pc \in CancelPCs
    BY CancelRecordTyped
  <2>2. TaskTypeOK
    BY <2>1, FutsAssumption DEF TaskTypeOK, TaskTyped, WaiterIsFut
  <2>3. tmo.state \in {"created", "entered", "expiring", "expired", "finished"}
    BY DEF ScopeTyped, TimeoutRecords
  <2>4. grp.members \subseteq Kids /\ grp.errors \subseteq Kids \cup {Self}
    BY DEF ScopeTyped, GroupRecords
  <2>5. \A k \in Kids : kid[k].st \in KidStates
    BY DEF ScopeTyped, KidRecords
  <2> QED
    BY <2>2, <2>3, <2>4, <2>5 DEF TypeOK, ScopeTyped
<1> QED
  BY <1>1, BaseAlways, PTL

\* Task.cancel completes only the future the task is suspended on at that moment, however
\* many threads cancel it, whatever completes its futures, and however the task moves from one
\* await to the next between the look at _fut_waiter and the cancel of what it found.
THEOREM CancelsHitTheAwait == Spec => CancelHitsTheAwait
<1>1. ASSUME BaseInv, [Next]_vars
      PROVE  [\A f \in Futs : fstate[f] = "PENDING" /\ fstate'[f] = "CANCELLED"
                                => pc = "parked" /\ fut = f]_cancelVars
  <2> SUFFICES ASSUME NEW g \in Futs, fstate[g] = "PENDING", fstate'[g] = "CANCELLED"
               PROVE  pc = "parked" /\ fut = g
    OBVIOUS
  <2>1. TaskMove
    BY <1>1, StepsAreMoves DEF BaseInv
  <2>2. fstate \in [Futs -> States]
    BY <1>1 DEF BaseInv, TaskInv, TaskTyped
  <2>3. fstate' # fstate
    OBVIOUS
  <2>4. ASSUME NEW c \in Cancellers, CancelFuture(c) PROVE pc = "parked" /\ fut = g
    <3>1. ca[c].pc = "cancel" /\ fstate' = [fstate EXCEPT ![ca[c].f] = "CANCELLED"]
      BY <2>3, <2>4 DEF CancelFuture
    <3>2. ca[c].f \in Futs
      BY <1>1, <3>1 DEF BaseInv, TaskInv, AimIsFut
    <3>3. g = ca[c].f
      BY <2>2, <3>1, <3>2
    <3> QED
      BY <1>1, <3>1, <3>3 DEF BaseInv, TaskInv, AimIsFut
  <2>5. ASSUME NEW f \in Futs, CompleteFuture(f) \/ SetFuture(f) PROVE FALSE
    <3>1. PICK s \in States : (s # "CANCELLED" \/ s = fstate[f]) /\ fstate' = [fstate EXCEPT ![f] = s]
      <4>1. CASE CompleteFuture(f)
        BY <4>1 DEF CompleteFuture, States
      <4>2. CASE SetFuture(f)
        <5>1. CASE fstate[f] = "PENDING"
          BY <4>2, <5>1 DEF SetFuture, States
        <5>2. CASE fstate[f] # "PENDING"
          BY <2>2, <4>2, <5>2 DEF SetFuture
        <5> QED
          BY <5>1, <5>2
      <4> QED
        BY <2>5, <4>1, <4>2
    <3> QED
      BY <2>2, <3>1
  <2>6. CASE \E f \in Futs : Await(f) \/ WakeFuture(f)
    BY <2>3, <2>6 DEF Await, WakeFuture, futVars
  <2>7. CASE Arm \/ Ready \/ Resume \/ Unarm \/ Read \/ UNCHANGED cancelVars
    BY <2>3, <2>7 DEF Arm, Ready, RaiseDue, Resume, Unarm, Read, futVars, cancelVars
  <2>8. CASE Catch \/ Uncancel \/ UncancelStore \/ UncancelTest \/ Withdraw \/ Rethrow
    BY <2>3, <2>8 DEF Catch, Uncancel, UncancelStore, UncancelTest, Withdraw, Rethrow, futVars
  <2>9. CASE Escape \/ Fail \/ Return \/ Settle
    BY <2>3, <2>9 DEF Escape, Fail, Return, Settle, futVars
  <2>10. ASSUME NEW c \in Cancellers, Cancel(c) \/ CancelCount(c) \/ CancelLook(c) \/ CancelDeliver(c)
         PROVE  FALSE
    BY <2>3, <2>10 DEF Cancel, CancelCount, CancelLook, CancelDeliver, futVars
  <2> QED
    BY <2>1, <2>4, <2>5, <2>6, <2>7, <2>8, <2>9, <2>10 DEF TaskMove
<1> QED
  BY <1>1, BaseAlways, PTL DEF Spec, CancelHitsTheAwait

\* A task that is suspended with a cancel due, when every call of cancel has returned, was
\* cancelled at an earlier await whose future somebody had completed first; no other order
\* of the steps of cancel and of Future.__await__ leaves it so.
THEOREM CancelsMissOnlyWhenMoved == Spec => []MissedOnlyWhenMoved
<1>1. ASSUME BaseInv PROVE MissedOnlyWhenMoved
  <2> SUFFICES ASSUME pc = "parked", fstate[fut] = "PENDING", mustCancel
               PROVE  \E c \in Returned : ca[c].f \notin {NoFuture, fut} /\ fstate[ca[c].f] # "PENDING"
    BY DEF MissedOnlyWhenMoved
  <2>1. PICK c \in Cancellers : ca[c].pc = "true" /\ ca[c].f \in Futs /\ fstate[ca[c].f] # "PENDING"
    BY <1>1 DEF BaseInv, TaskInv, DueIsMissed
  <2> QED
    BY <2>1, FutsAssumption DEF Returned
<1> QED
  BY <1>1, BaseAlways, PTL

\* A TaskGroup is left only when every task it created has ended and been reported, and every
\* failure among them is in its errors: neither a task that fails while it is being added,
\* nor callbacks on other workers that run while the group aborts, make it lose one.
THEOREM GroupsJoinAll == Spec => []GroupJoinsAll
<1>1. ASSUME BaseInv PROVE GroupJoinsAll
  <2> SUFFICES ASSUME grp.gone, NEW k \in Kids, kid[k].st # "unborn"
               PROVE  Ended(k) /\ k \notin grp.members /\ (Failed(k) => k \in grp.errors)
    BY DEF GroupJoinsAll
  <2> USE <1>1 DEF BaseInv, GroupInv, HeldInv
  <2>1. at \in OuterPlaces /\ grp.members = {}
    BY DEF GroupStaysEmpty
  <2>2. kid[k].cb \notin {"none", "add", "register", "added", "queued"}
    BY <2>1 DEF KidsHeld, OuterPlaces
  <2> QED
    BY <2>1, <2>2 DEF KidsHeld
<1> QED
  BY <1>1, BaseAlways, PTL

-----------------------------------------------------------------------------
\* Who cancels.

\* A step of a cancel by another thread leaves a thread's cancel where it is; its own goes on.
LEMMA CancelGoesOn ==
  ASSUME TaskTyped, NEW c \in Cancellers, CancelStep(c) \/ Cancel(c)
  PROVE  /\ \A d \in Cancellers : d # c => ca'[d].pc = ca[d].pc
         /\ Cancel(c) => /\ ca[c].pc = "start"
                         /\ ca'[c].pc = IF tstate # "PENDING" THEN "false" ELSE "count"
         /\ CancelStep(c) => ca[c].pc \notin {"start", "true", "false"} /\ ca'[c].pc \notin {"start", "count", "false"}
<1>1. Cancels(c)
  BY DEF Cancels, CancelStep
<1> QED
  BY <1>1, CancelEffect DEF Cancel, CancelStep, CancelCount, CancelLook, CancelFuture, CancelDeliver

LEMMA Identities ==
  /\ Timer \in Cancellers /\ Self \in Cancellers /\ Kids \subseteq Cancellers
  /\ Outsiders \subseteq Cancellers
  /\ Timer # Self /\ Timer # NoFuture
  /\ \A k \in Kids : k # Timer /\ k # Self /\ k \notin Outsiders
  /\ \A o \in Outsiders : o # Timer /\ o # Self
  BY CancellersAssumption, IdentityAssumption

LEMMA TimerCancelsStep == BaseInv /\ TimerCancels /\ [Next]_vars => TimerCancels'
<1> SUFFICES ASSUME BaseInv, TimerCancels, [Next]_vars PROVE TimerCancels'
  OBVIOUS
<1> DEFINE Left == {"t_uncancel", "t_end", "after", "last"}
\* A step that leaves the timer alone.
<1>a. ASSUME UNCHANGED <<tmo, tpc, app>>, ca'[Timer].pc = ca[Timer].pc,
             \/ at' = at
             \/ {at, at'} \cap ({"enter", "t_exit"} \cup Left) = {}
             \/ at' = Outer /\ at \notin {"enter", "t_exit"} \cup Left
             \/ at = "t_uncancel" /\ at' = "t_end"
             \/ at \in {"t_end", "after"} /\ at' \in {"after", "last"}
      PROVE  TimerCancels'
  BY <1>a DEF TimerCancels, Started, Busy, Outer
<1>0. /\ tmo \in TimeoutRecords /\ tpc \in [Timers -> {"idle", "armed", "fired", "cancel"}]
      /\ TaskTyped /\ Timer # NoFuture
  BY Identities DEF BaseInv, TaskInv, ScopeTyped
<1>b. ASSUME NEW c \in Cancellers, c # Timer, CancelStep(c) \/ Cancel(c), UNCHANGED scopeVars
      PROVE  TimerCancels'
  BY <1>0, <1>a, <1>b, CancelGoesOn, Identities DEF scopeVars
<1>c. ASSUME UNCHANGED <<ca, scopeVars>> PROVE TimerCancels'
  BY <1>a, <1>c DEF scopeVars
<1>d. ASSUME UNCHANGED cancelVars PROVE ca' = ca /\ pc' = pc
  BY <1>d DEF cancelVars, taskVars
\* The timer's thread.
<1>1. CASE OnTimeoutCancel
  <2>1. Cancel(Timer) /\ UNCHANGED scopeVars /\ \E d \in Timers : tpc[d] = "cancel"
    BY <1>1 DEF OnTimeoutCancel
  <2>2. tmo.lock = Timer /\ tmo.state = "expiring"
    BY <2>1 DEF TimerCancels
  <2>3. tstate = "PENDING"
    BY <2>2 DEF TimerCancels, BaseInv, GroupInv, PlaceOfPc
  <2>4. ca'[Timer].pc = "count"
    BY <1>0, <2>1, <2>3, CancelGoesOn, Identities
  <2> QED
    BY <1>0, <2>1, <2>2, <2>4 DEF TimerCancels, Started, Busy, scopeVars
<1>2. CASE CancelStep(Timer) /\ UNCHANGED scopeVars
  <2>1. Busy(Timer) /\ ca'[Timer].pc \notin {"start", "count", "false"}
    BY <1>0, <1>2, CancelGoesOn, Identities DEF Busy
  <2> QED
    BY <1>0, <1>2, <2>1 DEF TimerCancels, Started, Busy, scopeVars
<1>3. ASSUME NEW d \in Timers, Fire(d) PROVE TimerCancels'
  <2>1. tpc' = [tpc EXCEPT ![d] = "fired"] /\ UNCHANGED <<ca, app, at, tmo>>
    BY <1>3, <1>d DEF Fire
  <2>2. \A i \in Timers : tpc'[i] = "cancel" => tpc[i] = "cancel"
    BY <1>0, <2>1
  <2> QED
    BY <2>1, <2>2 DEF TimerCancels, Timers, Started, Busy
<1>4. ASSUME NEW d \in Timers, OnTimeout(d) PROVE TimerCancels'
  <2>1. tmo.lock = NoFuture /\ UNCHANGED <<ca, app, at>>
    BY <1>4, <1>d DEF OnTimeout
  <2>2. \A i \in Timers : tpc[i] # "cancel"
    BY <1>0, <2>1 DEF TimerCancels
  <2>3. CASE tmo.state = "entered"
    <3>1. /\ tmo' = [state |-> "expiring", handler |-> 0, lock |-> Timer]
          /\ tpc' = [tpc EXCEPT ![d] = "cancel"]
      BY <1>4, <2>3 DEF OnTimeout
    <3> QED
      BY <1>0, <2>1, <2>2, <2>3, <3>1 DEF TimerCancels, Timers, Started, Busy
  <2>4. CASE tmo.state # "entered"
    <3>1. tmo' = [tmo EXCEPT !.handler = 0] /\ tpc' = [tpc EXCEPT ![d] = "idle"]
      BY <1>4, <2>4 DEF OnTimeout
    <3>2. tmo'.state = tmo.state /\ tmo'.lock = tmo.lock
      BY <1>0, <3>1 DEF TimeoutRecords
    <3>3. \A i \in Timers : tpc'[i] # "cancel"
      BY <1>0, <2>2, <3>1
    <3> QED
      BY <2>1, <3>2, <3>3 DEF TimerCancels, Timers, Started, Busy
  <2> QED
    BY <2>3, <2>4
<1>5. ASSUME NEW d \in Timers, OnTimeoutEnd(d) PROVE TimerCancels'
  <2>1. /\ tpc[d] = "cancel" /\ ca[Timer].pc \in {"true", "false"} /\ UNCHANGED <<ca, app, at>>
        /\ tmo' = [tmo EXCEPT !.lock = NoFuture] /\ tpc' = [tpc EXCEPT ![d] = "idle"]
    BY <1>5, <1>d DEF OnTimeoutEnd
  <2>2. tmo'.state = tmo.state /\ tmo'.lock = NoFuture
    BY <1>0, <2>1 DEF TimeoutRecords
  <2>3. \A i \in Timers : tpc'[i] # "cancel"
    BY <1>0, <2>1 DEF TimerCancels, Timers
  <2> QED
    BY <1>0, <2>1, <2>2, <2>3 DEF TimerCancels, Timers, Started, Busy
\* The task enters the scope, extends it and leaves it.
<1>e. ASSUME NEW d \in Timers, NEW i \in {0, 1, 2}
      PROVE  \A j \in Timers : /\ CancelTimer(i)[j] = "cancel" => tpc[j] = "cancel"
                               /\ CallAt(d, CancelTimer(i))[j] = "cancel" => tpc[j] = "cancel"
  BY <1>0 DEF CancelTimer, CallAt
<1>f. ASSUME NEW d \in Timers, Reschedule(d), tmo.state \in {"created", "entered"}
      PROVE  /\ tmo'.state = "entered" /\ tmo'.lock = NoFuture /\ \A j \in Timers : tpc'[j] # "cancel"
             /\ ~Started(Timer)
  <2>1. tmo.lock = NoFuture /\ tmo' = [tmo EXCEPT !.state = "entered", !.handler = d]
    BY <1>f DEF Reschedule
  <2>2. tmo'.state = "entered" /\ tmo'.lock = NoFuture /\ tmo.handler \in {0, 1, 2}
    BY <1>0, <2>1 DEF TimeoutRecords, Timers
  <2> QED
    BY <1>0, <1>e, <1>f, <2>1, <2>2 DEF Reschedule, TimerCancels
<1>6. CASE Enter
  <2>1. at = "enter" /\ at' \in {"body", "g_enter"} /\ UNCHANGED <<ca, app>> /\ tmo.state = "created"
    BY <1>6, <1>d DEF Enter, At, Goto, TimerCancels
  <2>2. CASE app.timeout
    BY <1>0, <1>6, <1>f, <2>1, <2>2 DEF Enter, TimerCancels, Timers, Started, Busy
  <2>3. CASE ~app.timeout
    BY <1>6, <2>1, <2>3 DEF Enter, TimerCancels, Timers, Started, Busy
  <2> QED
    BY <2>2, <2>3
<1>7. CASE Extend
  <2>1. UNCHANGED <<ca, app, at>> /\ tmo.state = "entered" /\ Reschedule(2)
    BY <1>7, <1>d DEF Extend
  <2> QED
    BY <1>0, <1>f, <2>1 DEF TimerCancels, Timers, Started, Busy
<1>8. CASE TimeoutExit
  <2>1. /\ at = "t_exit" /\ tmo.lock = NoFuture /\ UNCHANGED <<ca, app>>
        /\ tmo' = [tmo EXCEPT !.handler = 0,
                              !.state = IF @ = "expiring" THEN "expired" ELSE "finished"]
        /\ tpc' = CancelTimer(tmo.handler)
        /\ at' = IF tmo.state = "expiring" THEN "t_uncancel" ELSE "after"
    BY <1>8, <1>d DEF TimeoutExit, At, Goto
  <2>2. /\ tmo'.state = (IF tmo.state = "expiring" THEN "expired" ELSE "finished")
        /\ tmo'.lock = NoFuture /\ tmo.handler \in {0, 1, 2}
    BY <1>0, <2>1 DEF TimeoutRecords
  <2>3. \A j \in Timers : tpc'[j] # "cancel"
    BY <1>0, <1>e, <2>1, <2>2 DEF TimerCancels
  <2>4. tmo.state # "expired" /\ tmo.state # "created"
    BY <2>1 DEF TimerCancels
  <2> QED
    BY <1>0, <2>1, <2>2, <2>3, <2>4 DEF TimerCancels, Timers, Started, Busy
<1>9. CASE TimeoutUncancel
  <2>1. UNCHANGED <<tmo, tpc, app, ca>> /\ at = "t_uncancel" /\ at' = "t_end"
    BY <1>9 DEF TimeoutUncancel, CallUncancel, Uncancel, cancelVars, At, Goto
  <2> QED
    BY <1>a, <2>1
<1>10. CASE TimeoutEnd
  <2>1. UNCHANGED <<tmo, tpc, app, ca>> /\ at = "t_end" /\ at' = "after"
    BY <1>10, <1>d DEF TimeoutEnd, At, Goto
  <2> QED
    BY <1>a, <2>1
\* The rest of the coroutine.
<1>11. CASE GroupEnter \/ GroupExit \/ GroupAbort \/ GroupLoop \/ GroupClear \/ GroupUncancelled
  <2>1. UNCHANGED <<tmo, tpc, app, cancelVars>>
    BY <1>11 DEF GroupEnter, GroupExit, GroupAbort, GroupLoop, GroupClear, GroupUncancelled
  <2>2. {at, at'} \cap ({"enter", "t_exit"} \cup Left) = {}
    BY <1>11
       DEF GroupEnter, GroupExit, GroupAbort, GroupLoop, GroupClear, GroupUncancelled, At, Goto
  <2> QED
    BY <1>a, <1>d, <2>1, <2>2
<1>12. CASE GroupAwait \/ GroupWoken \/ GroupUncancel \/ GroupAgain
  <2>1. UNCHANGED <<tmo, tpc, app, ca>>
    BY <1>12 DEF GroupAwait, GroupWoken, GroupUncancel, GroupAgain, CallUncancel, Await, Catch,
                 Uncancel, cancelVars
  <2>2. {at, at'} \cap ({"enter", "t_exit"} \cup Left) = {}
    BY <1>12 DEF GroupAwait, GroupWoken, GroupUncancel, GroupAgain, CallUncancel, At, Goto
  <2> QED
    BY <1>a, <2>1, <2>2
<1>13. CASE GroupEnd \/ GroupRaise \/ GroupRecancelled
  <2>1. UNCHANGED <<tmo, tpc, app, cancelVars>>
    BY <1>13 DEF GroupEnd, GroupRaise, GroupRecancelled
  <2>2. at \notin {"enter", "t_exit"} \cup Left
        /\ (at' = Outer \/ at' \notin {"enter", "t_exit"} \cup Left)
    BY <1>13 DEF GroupEnd, GroupRaise, GroupRecancelled, LeaveGroup, At, Goto
  <2> QED
    BY <1>a, <1>d, <2>1, <2>2
<1>14. CASE LeaveBody
  <2>1. UNCHANGED <<tmo, tpc, app, ca>> /\ at = "body" /\ at' \in {"g_exit", Outer}
    BY <1>14 DEF LeaveBody, Catch, cancelVars, At, Goto
  <2> QED
    BY <1>a, <2>1
<1>15. CASE AwaitBody
  BY <1>15, <1>a DEF AwaitBody, Await
<1>16. CASE AwaitAfter \/ Reraise
  <2>1. UNCHANGED <<tmo, tpc, app, ca>> /\ at = "after" /\ at' = "last"
    BY <1>16 DEF AwaitAfter, Reraise, Await, At, Goto
  <2> QED
    BY <1>a, <2>1
<1>17. ASSUME NEW k \in Kids, CreateTask(k) \/ AddMember(k) \/ AddCallback(k) PROVE TimerCancels'
  <2>1. UNCHANGED <<tmo, tpc, app, cancelVars>>
    BY <1>17 DEF CreateTask, AddMember, AddCallback
  <2>2. {at, at'} \cap ({"enter", "t_exit"} \cup Left) = {}
    BY <1>17 DEF CreateTask, AddMember, AddCallback, At, Goto
  <2> QED
    BY <1>a, <1>d, <2>1, <2>2
\* What neither the coroutine nor the timer does.
<1>18. ASSUME NEW k \in Kids,
              KidEnds(k) \/ OnTaskDone(k) \/ CallbackAbort(k) \/ CallbackCancelled(k) \/ CallbackWake(k)
       PROVE  TimerCancels'
  <2>1. UNCHANGED <<tmo, tpc, app, at, cancelVars>>
    BY <1>18 DEF KidEnds, OnTaskDone, CallbackAbort, CallbackCancelled, CallbackWake
  <2> QED
    BY <1>a, <1>d, <2>1
<1>19. ASSUME NEW k \in Kids, CallbackSet(k) PROVE TimerCancels'
  BY <1>19, <1>a DEF CallbackSet
<1>20. ASSUME NEW k \in Kids, CallbackCancel(k) PROVE TimerCancels'
  BY <1>20, <1>b, Identities DEF CallbackCancel
<1>21. CASE GroupRecancel
  BY <1>21, <1>b, Identities DEF GroupRecancel
<1>22. ASSUME NEW o \in app.outsiders, Cancel(o), UNCHANGED scopeVars PROVE TimerCancels'
  <2>1. o \in Outsiders
    BY AppsAssumption DEF BaseInv, ScopeTyped
  <2> QED
    BY <1>22, <1>b, <2>1, Identities
<1>23. ASSUME NEW c \in Cancellers, CancelStep(c), UNCHANGED scopeVars PROVE TimerCancels'
  BY <1>23, <1>2, <1>b
<1>24. CASE (AwaitStep \/ UncancelStep) /\ UNCHANGED scopeVars
  BY <1>24, <1>c
     DEF AwaitStep, UncancelStep, Arm, Ready, RaiseDue, Resume, Unarm, Read, UncancelStore,
                     UncancelTest, Withdraw
<1>25. CASE CatchInBody \/ EndOfTask
  BY <1>25, <1>c DEF CatchInBody, EndOfTask, Catch, Return, Fail, Escape, Settle
<1>26. CASE \E f \in Futs : (CompleteFuture(f) \/ WakeFuture(f)) /\ UNCHANGED scopeVars
  BY <1>26, <1>c DEF CompleteFuture, WakeFuture
<1>27. CASE Rest \/ UNCHANGED vars
  BY <1>27, <1>c, <1>d DEF Rest, vars
<1> QED
  BY <1>1, <1>3, <1>4, <1>5, <1>6, <1>7, <1>8, <1>9, <1>10, <1>11, <1>12, <1>13, <1>14, <1>15,
     <1>16,
     <1>17, <1>18, <1>19, <1>20, <1>21, <1>22, <1>23, <1>24, <1>25, <1>26, <1>27
     DEF Next, TaskStep, BodyStep, GroupStep, KidStep, TimerStep

\* The steps by what they may change: those of the coroutine, which leave the kids and the
\* cancels alone; those that touch neither the coroutine nor the group; the task adding a
\* kid; the kids; and the steps of a cancel.
Coroutine ==
  \/ Enter \/ Extend \/ TimeoutExit \/ TimeoutUncancel \/ TimeoutEnd \/ GroupEnter \/ AwaitBody
  \/ CatchInBody \/ LeaveBody \/ GroupExit \/ GroupAbort \/ GroupLoop \/ GroupAwait \/ GroupWoken
  \/ GroupClear \/ GroupEnd \/ GroupUncancel \/ GroupUncancelled \/ GroupRaise \/ GroupAgain
  \/ GroupRecancelled \/ AwaitAfter \/ Reraise \/ EndOfTask

Elsewhere ==
  \/ \E d \in Timers : Fire(d) \/ OnTimeout(d) \/ OnTimeoutEnd(d)
  \/ (AwaitStep \/ UncancelStep) /\ UNCHANGED scopeVars
  \/ \E f \in Futs : (CompleteFuture(f) \/ WakeFuture(f)) /\ UNCHANGED scopeVars
  \/ Rest \/ UNCHANGED vars

\* Who may start a cancel.
MayCancel(c) ==
  \/ c = Timer /\ \E d \in Timers : tpc[d] = "cancel"
  \/ c \in Kids /\ kid[c].cb = "cancel"
  \/ c = Self /\ At("g_recancel")
  \/ c \in Outsiders

LEMMA KindsOfSteps ==
  ASSUME ScopeTyped, [Next]_vars
  PROVE  \/ Coroutine \/ Elsewhere
         \/ \E k \in Kids : CreateTask(k) \/ AddMember(k) \/ AddCallback(k)
         \/ \E k \in Kids : KidEnds(k) \/ OnTaskDone(k) \/ CallbackAbort(k) \/ CallbackCancelled(k)
                            \/ CallbackWake(k) \/ CallbackSet(k)
         \/ \E c \in Cancellers : /\ CancelStep(c) \/ (Cancel(c) /\ MayCancel(c))
                                  /\ UNCHANGED scopeVars
<1> USE Identities DEF MayCancel
<1>1. CASE TaskStep
  BY <1>1 DEF TaskStep, GroupStep, GroupRecancel, Coroutine, Elsewhere
<1>2. CASE BodyStep
  BY <1>2 DEF BodyStep, Coroutine
<1>3. CASE OnTimeoutCancel
  BY <1>3 DEF OnTimeoutCancel
<1>4. CASE \E d \in Timers : Fire(d) \/ TimerStep(d)
  BY <1>4 DEF TimerStep, Elsewhere
<1>5. CASE \E k \in Kids : KidStep(k)
  BY <1>5 DEF KidStep, CallbackCancel
<1>6. CASE \E c \in Cancellers : CancelStep(c) /\ UNCHANGED scopeVars
  BY <1>6
<1>7. CASE \E o \in app.outsiders : Cancel(o) /\ UNCHANGED scopeVars
  BY <1>7, AppsAssumption DEF ScopeTyped
<1>8. CASE \/ \E f \in Futs : (CompleteFuture(f) \/ WakeFuture(f)) /\ UNCHANGED scopeVars
           \/ Rest \/ UNCHANGED vars
  BY <1>8 DEF Elsewhere
<1> QED
  BY <1>1, <1>2, <1>3, <1>4, <1>5, <1>6, <1>7, <1>8 DEF Next

LEMMA CoroutineEffect ==
  ASSUME ScopeTyped, Coroutine
  PROVE  KidsKept /\ GroupKept /\ UNCHANGED <<ca, app>> /\ (late' = late \/ GroupLoop)
<1>a. UNCHANGED cancelVars => ca' = ca
  BY DEF cancelVars
<1>b. UNCHANGED kid => KidsKept
  BY DEF KidsKept
<1>c. UNCHANGED grp => GroupKept
  BY DEF GroupKept
<1> USE <1>a, <1>b, <1>c
<1>1. CASE Enter \/ Extend \/ TimeoutExit \/ TimeoutEnd \/ GroupUncancelled
  BY <1>1 DEF Enter, Extend, TimeoutExit, TimeoutEnd, GroupUncancelled
<1>2. CASE TimeoutUncancel \/ GroupUncancel \/ GroupAgain
  BY <1>2 DEF TimeoutUncancel, GroupUncancel, GroupAgain, CallUncancel, Uncancel
<1>3. CASE GroupEnter \/ GroupClear \/ GroupExit
  BY <1>3, GroupFieldsEffect DEF GroupEnter, GroupClear, GroupExit
<1>4. CASE GroupLoop
  BY <1>4, GroupFieldsEffect DEF GroupLoop
<1>5. CASE AwaitBody \/ GroupAwait \/ AwaitAfter
  BY <1>5 DEF AwaitBody, GroupAwait, AwaitAfter, Await
<1>6. CASE CatchInBody \/ LeaveBody \/ GroupWoken
  BY <1>6 DEF CatchInBody, LeaveBody, GroupWoken, Catch, scopeVars
<1>7. CASE GroupAbort
  BY <1>7, GroupAbortEffect
<1>8. CASE GroupEnd \/ GroupRaise \/ GroupRecancelled
  <2>1. UNCHANGED <<cancelVars, app, kid, late>>
    BY <1>8 DEF GroupEnd, GroupRaise, GroupRecancelled
  <2>2. (\E e : LeaveGroup(e)) \/ UNCHANGED grp
    BY <1>8 DEF GroupEnd, GroupRaise, GroupRecancelled
  <2> QED
    BY <2>1, <2>2, GroupFieldsEffect
<1>9. CASE Reraise \/ EndOfTask
  BY <1>9 DEF Reraise, EndOfTask, Return, Fail, Escape, Settle, scopeVars
<1> QED
  BY <1>1, <1>2, <1>3, <1>4, <1>5, <1>6, <1>7, <1>8, <1>9 DEF Coroutine

LEMMA ElsewhereEffect ==
  ASSUME Elsewhere
  PROVE  UNCHANGED <<ca, app, at, exc, grp, kid, late>>
<1>1. CASE \E d \in Timers : Fire(d) \/ OnTimeout(d) \/ OnTimeoutEnd(d)
  BY <1>1 DEF Fire, OnTimeout, OnTimeoutEnd, cancelVars
<1>2. CASE (AwaitStep \/ UncancelStep) /\ UNCHANGED scopeVars
  BY <1>2 DEF AwaitStep, UncancelStep, Arm, Ready, RaiseDue, Resume, Unarm, Read, UncancelStore,
              UncancelTest, Withdraw, scopeVars
<1>3. CASE \E f \in Futs : (CompleteFuture(f) \/ WakeFuture(f)) /\ UNCHANGED scopeVars
  BY <1>3 DEF CompleteFuture, WakeFuture, scopeVars
<1>4. CASE Rest \/ UNCHANGED vars
  BY <1>4 DEF Rest, vars, cancelVars, scopeVars
<1> QED
  BY <1>1, <1>2, <1>3, <1>4 DEF Elsewhere

LEMMA KidCancelsStep == BaseInv /\ KidCancels /\ [Next]_vars => KidCancels'
<1> SUFFICES ASSUME BaseInv, KidCancels, [Next]_vars PROVE KidCancels'
  OBVIOUS
<1> USE DEF Started, Busy
<1>0. ScopeTyped /\ TaskTyped /\ KidsHeld
  BY DEF BaseInv, TaskInv, GroupInv, HeldInv
\* A step that changes neither who is chosen nor how far a cancel is.
<1>a. ASSUME grp'.req = grp.req, \A k \in Kids : ca'[k].pc = ca[k].pc,
             \A k \in Kids : \/ kid'[k].cb = kid[k].cb
                             \/ /\ kid[k].cb \notin {"queued", "abort", "list", "kill", "cancel", "wake", "set", "end"}
                                /\ kid'[k].cb \notin {"abort", "list", "kill", "cancel"}
                             \/ /\ kid[k].cb \in {"wake", "set", "end"}
                                /\ kid'[k].cb \in {"wake", "set", "end"}
                             \/ /\ kid[k].cb \in {"abort", "list", "kill"}
                                /\ kid'[k].cb \in {"abort", "list", "kill", "cancel"}
                             \/ /\ kid[k].cb = "cancel" /\ ca[k].pc \in {"true", "false"}
                                /\ kid'[k].cb = "wake"
      PROVE  KidCancels'
  <2>1. ASSUME NEW k \in Kids
        PROVE  /\ Chosen(k)' = Chosen(k)
               /\ (Busy(k) => kid[k].cb = "cancel")'
               /\ (Started(k) => kid[k].cb \in {"cancel", "wake", "set", "end"})'
    BY <1>a DEF KidCancels, Chosen, Cancelling
  <2> QED
    BY <1>a, <2>1 DEF KidCancels
<1>1. CASE Coroutine
  BY <1>0, <1>1, <1>a, CoroutineEffect DEF KidsKept, GroupKept
<1>2. CASE Elsewhere
  BY <1>2, <1>a, ElsewhereEffect
<1>3. ASSUME NEW k \in Kids, CreateTask(k) \/ AddMember(k) \/ AddCallback(k) PROVE KidCancels'
  <2>1. UNCHANGED ca
    BY <1>3 DEF CreateTask, AddMember, AddCallback, cancelVars
  <2>2. CASE CreateTask(k)
    <3>1. kid[k].cb = "none"
      BY <1>0, <2>2, CreateEffect DEF KidsHeld
    <3> QED
      BY <1>0, <1>a, <2>1, <2>2, <3>1, CreateEffect
  <2>3. CASE AddMember(k)
    BY <1>0, <1>a, <2>1, <2>3, AddMemberEffect
  <2>4. CASE AddCallback(k)
    BY <1>0, <1>a, <2>1, <2>4, AddCallbackEffect
  <2> QED
    BY <1>3, <2>2, <2>3, <2>4
<1>4. ASSUME NEW k \in Kids, KidEnds(k) PROVE KidCancels'
  <2>1. UNCHANGED ca
    BY <1>4 DEF KidEnds, cancelVars
  <2> QED
    BY <1>0, <1>4, <1>a, <2>1, KidEndsEffect
<1>5. ASSUME NEW k \in Kids, OnTaskDone(k) PROVE KidCancels'
  <2> DEFINE cancels == Failed(k) /\ ~grp.aborting /\ ~grp.req /\ ~grp.gone /\ tstate = "PENDING"
  <2>1. /\ kid[k].cb = "queued" /\ kid'[k].cb = (IF cancels THEN "abort" ELSE "wake")
        /\ \A j \in Kids : j # k => kid'[j] = kid[j]
        /\ grp'.req = (grp.req \/ cancels) /\ ca' = ca
    BY <1>0, <1>5, OnTaskDoneEffect DEF cancelVars
  <2>2. ~Chosen(k)
    BY <2>1 DEF KidCancels, Chosen, Cancelling
  <2>3. CASE cancels
    <3>1. Chosen(k)' /\ \A j \in Kids : j # k => ~Chosen(j)'
      BY <2>1, <2>3 DEF KidCancels, Chosen, Cancelling
    <3>2. ASSUME NEW j \in Kids
          PROVE  /\ (Busy(j) => kid[j].cb = "cancel")'
                 /\ (Started(j) => kid[j].cb \in {"cancel", "wake", "set", "end"})'
      BY <2>1, <2>2 DEF KidCancels, Chosen
    <3> QED
      BY <2>1, <2>3, <3>1, <3>2 DEF KidCancels
  <2>4. CASE ~cancels
    <3>1. \A j \in Kids : Chosen(j)' = Chosen(j)
      BY <2>1, <2>4 DEF Chosen, Cancelling
    <3>2. ASSUME NEW j \in Kids
          PROVE  /\ (Busy(j) => kid[j].cb = "cancel")'
                 /\ (Started(j) => kid[j].cb \in {"cancel", "wake", "set", "end"})'
      BY <2>1, <2>2 DEF KidCancels, Chosen
    <3> QED
      BY <2>1, <2>4, <3>1, <3>2 DEF KidCancels
  <2> QED
    BY <2>3, <2>4
<1>6. ASSUME NEW k \in Kids, CallbackAbort(k) PROVE KidCancels'
  <2>1. UNCHANGED ca /\ grp'.req = grp.req
    BY <1>0, <1>6, CallbackAbortEffect DEF cancelVars, GroupKept
  <2> QED
    BY <1>0, <1>6, <1>a, <2>1, CallbackAbortEffect
<1>7. ASSUME NEW k \in Kids, CallbackCancelled(k) PROVE KidCancels'
  <2>1. /\ UNCHANGED <<ca, grp>> /\ CbGoto(k, "wake") /\ kid[k].cb = "cancel"
        /\ ca[k].pc \in {"true", "false"}
    BY <1>7 DEF CallbackCancelled, cancelVars
  <2> QED
    BY <1>0, <1>a, <2>1, CbGotoEffect
<1>8. ASSUME NEW k \in Kids, CallbackWake(k) PROVE KidCancels'
  BY <1>0, <1>8, <1>a, CallbackWakeEffect DEF cancelVars
<1>9. ASSUME NEW k \in Kids, CallbackSet(k) PROVE KidCancels'
  <2>1. UNCHANGED <<ca, grp>> /\ CbGoto(k, "end") /\ kid[k].cb = "set"
    BY <1>9 DEF CallbackSet
  <2> QED
    BY <1>0, <1>a, <2>1, CbGotoEffect
<1>10. ASSUME NEW c \in Cancellers, CancelStep(c) \/ (Cancel(c) /\ MayCancel(c)), UNCHANGED scopeVars
       PROVE  KidCancels'
  <2>0. UNCHANGED <<kid, grp>>
    BY <1>10 DEF scopeVars
  <2>1. CASE c \notin Kids
    BY <1>0, <1>10, <1>a, <2>0, <2>1, CancelGoesOn, Identities
  <2>2. CASE c \in Kids
    <3>1. kid[c].cb = "cancel" /\ ca'[c].pc # "start"
      BY <1>0, <1>10, <2>2, CancelGoesOn, Identities DEF KidCancels, MayCancel, Cancel
    <3>2. \A j \in Kids : j # c => ca'[j].pc = ca[j].pc
      BY <1>0, <1>10, CancelGoesOn, Identities
    <3>3. \A j \in Kids : Chosen(j)' = Chosen(j)
      BY <2>0, <2>2, <3>1, <3>2 DEF Chosen, Cancelling
    <3> QED
      BY <2>0, <2>2, <3>1, <3>2, <3>3 DEF KidCancels
  <2> QED
    BY <2>1, <2>2
<1> QED
  BY <1>0, <1>1, <1>2, <1>3, <1>4, <1>5, <1>6, <1>7, <1>8, <1>9, <1>10, KindsOfSteps

LEMMA LateCancelsStep == BaseInv /\ LateCancels /\ [Next]_vars => LateCancels'
<1> SUFFICES ASSUME BaseInv, LateCancels, [Next]_vars PROVE LateCancels'
  OBVIOUS
<1>0. ScopeTyped /\ TaskTyped /\ KidsHeld /\ GroupStaysEmpty /\ PlaceOfPc
  BY DEF BaseInv, TaskInv, GroupInv, HeldInv
<1> DEFINE Late == LeavePlaces \cup OuterPlaces
\* A step that makes no kid cancel.
<1>a. ASSUME late' = late, \A k \in Kids : ca'[k].pc = ca[k].pc,
             \A k \in Kids : Cancelling(k)' => Cancelling(k),
             at' \in Late <=> at \in Late
      PROVE  LateCancels'
  BY <1>a DEF LateCancels
<1>1. CASE Coroutine
  <2>0. KidsKept /\ UNCHANGED <<ca, app>>
    BY <1>0, <1>1, CoroutineEffect
  <2>1. CASE GroupLoop
    <3>1. at = "g_loop" /\ late = {}
      BY <2>1 DEF GroupLoop, At, LateCancels, LeavePlaces, OuterPlaces
    <3>2. CASE grp.members = {}
      <4>1. at' = "g_end" /\ late' = {k \in Kids : Cancelling(k)} /\ kid' = kid
        BY <2>1, <3>2 DEF GroupLoop, Goto
      <4> QED
        BY <2>0, <3>1, <4>1 DEF LateCancels, Cancelling, LeavePlaces
    <3>3. CASE grp.members # {}
      <4>1. at' = "g_await" /\ late' = late
        BY <2>1, <3>3 DEF GroupLoop, Goto
      <4> QED
        BY <2>0, <3>1, <4>1 DEF LateCancels, LeavePlaces, OuterPlaces
    <3> QED
      BY <3>2, <3>3
  <2>2. CASE LeaveBody /\ app.kids = {}
    <3>1. at = "body" /\ late' = late /\ late = {}
      BY <2>2 DEF LeaveBody, At, LateCancels, LeavePlaces, OuterPlaces
    <3>2. \A k \in Kids : kid[k].cb = "none"
      BY <1>0, <2>2 DEF KidsHeld
    <3> QED
      BY <2>0, <3>1, <3>2 DEF LateCancels, Cancelling, KidsKept
  <2>3. CASE ~GroupLoop /\ ~(LeaveBody /\ app.kids = {})
    <3>1. late' = late
      BY <1>0, <1>1, <2>3, CoroutineEffect
    <3>2. at' \in Late <=> at \in Late
      <4> USE DEF At, Goto, LeavePlaces, OuterPlaces
      <4>1. CASE Enter \/ Extend \/ TimeoutExit \/ TimeoutUncancel \/ TimeoutEnd \/ GroupEnter
        BY <4>1
           DEF Enter, Extend, TimeoutExit, TimeoutUncancel, TimeoutEnd, CallUncancel, GroupEnter
      <4>2. CASE AwaitBody \/ CatchInBody \/ LeaveBody \/ GroupExit \/ GroupAbort
        BY <2>3, <4>2 DEF AwaitBody, CatchInBody, LeaveBody, GroupExit, GroupAbort, scopeVars
      <4>3. CASE GroupAwait \/ GroupWoken \/ GroupClear \/ GroupUncancel \/ GroupUncancelled \/ GroupAgain
        BY <4>3 DEF GroupAwait, GroupWoken, GroupClear, GroupUncancel, GroupUncancelled, GroupAgain,
                    CallUncancel
      <4>4. CASE GroupEnd \/ GroupRaise \/ GroupRecancelled
        BY <4>4 DEF GroupEnd, GroupRaise, GroupRecancelled, LeaveGroup, Outer
      <4>5. CASE AwaitAfter \/ Reraise \/ EndOfTask
        BY <4>5 DEF AwaitAfter, Reraise, EndOfTask, scopeVars
      <4> QED
        BY <1>1, <2>3, <4>1, <4>2, <4>3, <4>4, <4>5 DEF Coroutine
    <3> QED
      BY <1>a, <2>0, <3>1, <3>2 DEF KidsKept, Cancelling
  <2> QED
    BY <2>1, <2>2, <2>3
<1>2. CASE Elsewhere
  BY <1>2, <1>a, ElsewhereEffect DEF Cancelling
<1>3. ASSUME NEW k \in Kids, CreateTask(k) \/ AddMember(k) \/ AddCallback(k) PROVE LateCancels'
  <2>1. UNCHANGED <<ca, late>> /\ at \notin Late /\ at' \notin Late
    BY <1>3 DEF CreateTask, AddMember, AddCallback, cancelVars, At, Goto, LeavePlaces, OuterPlaces
  <2> QED
    BY <2>1 DEF LateCancels
<1>4. ASSUME NEW k \in Kids,
             KidEnds(k) \/ CallbackAbort(k) \/ CallbackCancelled(k) \/ CallbackWake(k) \/ CallbackSet(k)
      PROVE  LateCancels'
  <2>1. UNCHANGED <<ca, late, at>>
    BY <1>4 DEF KidEnds, CallbackAbort, CallbackCancelled, CallbackWake, CallbackSet, cancelVars
  <2>2. \A j \in Kids : Cancelling(j)' => Cancelling(j)
    <3>1. CASE KidEnds(k)
      BY <1>0, <3>1, KidEndsEffect DEF Cancelling
    <3>2. CASE CallbackAbort(k)
      BY <1>0, <3>2, CallbackAbortEffect DEF Cancelling
    <3>3. CASE CallbackWake(k)
      BY <1>0, <3>3, CallbackWakeEffect DEF Cancelling
    <3>4. CASE CallbackCancelled(k) \/ CallbackSet(k)
      <4>1. CbGoto(k, "wake") \/ CbGoto(k, "end")
        BY <3>4 DEF CallbackCancelled, CallbackSet
      <4> QED
        BY <1>0, <4>1, CbGotoEffect DEF Cancelling
    <3> QED
      BY <1>4, <3>1, <3>2, <3>3, <3>4
  <2> QED
    BY <1>a, <2>1, <2>2
<1>5. ASSUME NEW k \in Kids, OnTaskDone(k) PROVE LateCancels'
  <2>1. kid[k].cb = "queued" /\ UNCHANGED <<ca, late, at>>
    BY <1>0, <1>5, OnTaskDoneEffect DEF cancelVars
  <2>2. at \notin Late
    BY <1>0, <2>1 DEF KidsHeld, GroupStaysEmpty
  <2> QED
    BY <2>1, <2>2 DEF LateCancels
<1>6. ASSUME NEW c \in Cancellers, CancelStep(c) \/ (Cancel(c) /\ MayCancel(c)), UNCHANGED scopeVars
      PROVE  LateCancels'
  <2>0. UNCHANGED <<kid, late, at>>
    BY <1>6 DEF scopeVars
  <2>1. ASSUME late = {}, NEW k \in Kids PROVE ca'[k].pc # "false"
    <3>1. CASE k # c \/ CancelStep(c)
      BY <1>0, <1>6, <2>1, <3>1, CancelGoesOn, Identities DEF LateCancels
    <3>2. CASE k = c /\ Cancel(c) /\ MayCancel(c)
      <4>1. kid[c].cb = "cancel"
        BY <3>2, Identities DEF MayCancel
      <4>2. at \notin Late
        BY <2>1, <3>2, <4>1 DEF LateCancels, Cancelling
      <4>3. tstate = "PENDING"
        BY <1>0, <4>2 DEF PlaceOfPc, OuterPlaces
      <4> QED
        BY <1>0, <3>2, <4>3, CancelGoesOn
    <3> QED
      BY <1>6, <3>1, <3>2
  <2> QED
    BY <2>0, <2>1 DEF LateCancels, Cancelling
<1> QED
  BY <1>0, <1>1, <1>2, <1>3, <1>4, <1>5, <1>6, KindsOfSteps

LEMMA BaseLeavesStep == BaseInv /\ BaseLeaves /\ [Next]_vars => BaseLeaves'
<1> SUFFICES ASSUME BaseInv, BaseLeaves, [Next]_vars PROVE BaseLeaves'
  OBVIOUS
<1>0. ScopeTyped /\ KidsHeld /\ GroupStaysEmpty
  BY DEF BaseInv, GroupInv, HeldInv
<1> USE DEF At, Goto, LeavePlaces, OuterPlaces, BaseLeaves
<1>a. ASSUME UNCHANGED <<at, exc, grp, app>> PROVE BaseLeaves'
  BY <1>a
<1>1. CASE Enter \/ Extend \/ TimeoutExit \/ TimeoutUncancel \/ TimeoutEnd
  BY <1>1 DEF Enter, Extend, TimeoutExit, TimeoutUncancel, TimeoutEnd, CallUncancel
<1>2. CASE GroupEnter \/ GroupClear \/ (GroupLoop /\ grp.members # {})
  BY <1>0, <1>2, GroupFieldsEffect DEF GroupEnter, GroupClear, GroupLoop, GroupKept
<1>3. CASE GroupLoop /\ grp.members = {}
  BY <1>3 DEF GroupLoop
<1>4. CASE AwaitBody \/ CatchInBody \/ GroupAwait \/ GroupWoken
  BY <1>4 DEF AwaitBody, CatchInBody, GroupAwait, GroupWoken, scopeVars
<1>5. CASE LeaveBody
  <2>1. at = "body" /\ UNCHANGED <<grp, app>>
    BY <1>5 DEF LeaveBody
  <2>2. at' = IF app.kids # {} THEN "g_exit" ELSE Outer
    BY <1>5 DEF LeaveBody
  <2> QED
    BY <2>1, <2>2 DEF Outer
<1>6. CASE GroupExit
  BY <1>6 DEF GroupExit
<1>7. CASE GroupAbort
  BY <1>0, <1>7, GroupAbortEffect DEF GroupKept
<1>8. CASE GroupUncancel \/ GroupUncancelled \/ GroupAgain
  BY <1>8 DEF GroupUncancel, GroupUncancelled, GroupAgain, CallUncancel
<1>b. ASSUME NEW e, LeaveGroup(e), grp.base => e = "base", app' = app, app.kids # {}
      PROVE  BaseLeaves'
  <2>1. exc' = e /\ at' \in {"t_exit", "after"}
    BY <1>b DEF LeaveGroup, Outer
  <2>2. grp'.base = grp.base
    BY <1>0, <1>b, GroupFieldsEffect
  <2> QED
    BY <1>b, <2>1, <2>2
<1>9. CASE GroupEnd
  <2>1. at = "g_end" /\ app' = app /\ app.kids # {}
    BY <1>9 DEF GroupEnd
  <2>2. CASE grp.base
    BY <1>9, <1>b, <2>1, <2>2 DEF GroupEnd
  <2>3. CASE ~grp.base
    BY <1>9, <2>1, <2>3 DEF GroupEnd
  <2> QED
    BY <2>2, <2>3
<1>10. CASE GroupRaise \/ GroupRecancelled
  <2>1. at \in {"g_raise", "g_recancel"} /\ app' = app /\ app.kids # {} /\ ~grp.base
    BY <1>10 DEF GroupRaise, GroupRecancelled
  <2>2. (\E e : LeaveGroup(e)) \/ (UNCHANGED <<exc, grp>> /\ at' = "g_again")
    BY <1>10 DEF GroupRaise, GroupRecancelled
  <2> QED
    BY <1>b, <2>1, <2>2
<1>11. CASE AwaitAfter \/ Reraise \/ EndOfTask
  BY <1>11 DEF AwaitAfter, Reraise, EndOfTask, scopeVars
<1>12. ASSUME NEW k \in Kids, CreateTask(k) \/ AddMember(k) \/ AddCallback(k) PROVE BaseLeaves'
  <2>1. at \in {"body", "add"} /\ at' \in {"body", "add", "g_exit"} /\ app' = app
    BY <1>12 DEF CreateTask, AddMember, AddCallback
  <2>2. app.kids # {}
    BY <1>0, <1>12 DEF CreateTask, AddMember, AddCallback, KidsHeld
  <2> QED
    BY <2>1, <2>2
<1>13. ASSUME NEW k \in Kids, OnTaskDone(k) PROVE BaseLeaves'
  <2>1. kid[k].cb = "queued" /\ UNCHANGED <<at, app>>
    BY <1>0, <1>13, OnTaskDoneEffect
  <2>2. at \notin LeavePlaces \cup OuterPlaces /\ app.kids # {}
    BY <1>0, <2>1 DEF KidsHeld, GroupStaysEmpty
  <2> QED
    BY <2>1, <2>2
<1>14. ASSUME NEW k \in Kids, CallbackAbort(k) PROVE BaseLeaves'
  BY <1>0, <1>14, CallbackAbortEffect DEF GroupKept
<1>15. ASSUME NEW k \in Kids, KidEnds(k) \/ CallbackCancelled(k) \/ CallbackWake(k) \/ CallbackSet(k)
       PROVE  BaseLeaves'
  BY <1>15, <1>a DEF KidEnds, CallbackCancelled, CallbackWake, CallbackSet
<1>16. CASE Elsewhere
  BY <1>16, <1>a, ElsewhereEffect
<1>17. CASE UNCHANGED scopeVars
  BY <1>17, <1>a DEF scopeVars
<1> QED
  BY <1>0, <1>1, <1>2, <1>3, <1>4, <1>5, <1>6, <1>7, <1>8, <1>9, <1>10, <1>11, <1>12, <1>13, <1>14,
     <1>15, <1>16, <1>17, KindsOfSteps DEF Coroutine

LEMMA SelfCancelsStep == BaseInv /\ SelfCancels /\ [Next]_vars => SelfCancels'
<1> SUFFICES ASSUME BaseInv, SelfCancels, [Next]_vars PROVE SelfCancels'
  OBVIOUS
<1>0. ScopeTyped /\ TaskTyped /\ PlaceOfPc
  BY DEF BaseInv, TaskInv, GroupInv
<1> USE DEF Started, OuterPlaces
\* A step that does not cancel: the task has left, has still to cancel itself, or stays.
<1>a. ASSUME ca'[Self].pc = ca[Self].pc,
             \/ at' \in OuterPlaces /\ (at \in OuterPlaces \/ at # "g_recancel")
             \/ at \notin OuterPlaces \cup {"g_recancel"} /\ at' \notin OuterPlaces
             \/ at' = at /\ pc' = pc
             \/ at' = at /\ pc # "run" /\ at \notin OuterPlaces
      PROVE  SelfCancels'
  <2>1. CASE at' \in OuterPlaces
    BY <1>a, <2>1 DEF SelfCancels
  <2>2. CASE at' \notin OuterPlaces
    BY <1>a, <2>2 DEF SelfCancels
  <2> QED
    BY <2>1, <2>2
<1> USE DEF At, Goto
<1>1. CASE Coroutine
  <2>0. ca' = ca
    BY <1>0, <1>1, CoroutineEffect
  <2>1. CASE Enter \/ Extend \/ GroupEnter \/ AwaitBody \/ CatchInBody \/ GroupExit \/ GroupAbort \/ GroupLoop
    BY <1>a, <2>0, <2>1
       DEF Enter, Extend, GroupEnter, AwaitBody, CatchInBody, GroupExit, GroupAbort, GroupLoop, scopeVars
  <2>2. CASE GroupAwait \/ GroupWoken \/ GroupClear \/ GroupUncancel \/ GroupUncancelled \/ GroupAgain
    BY <1>a, <2>0, <2>2
       DEF GroupAwait, GroupWoken, GroupClear, GroupUncancel, GroupUncancelled, GroupAgain, CallUncancel
  <2>3. CASE GroupEnd \/ GroupRaise
    <3>1. at \in {"g_end", "g_raise"}
      BY <2>3 DEF GroupEnd, GroupRaise
    <3>2. at' \in OuterPlaces \cup {"g_uncancel", "g_raise", "g_again"}
      BY <2>3 DEF GroupEnd, GroupRaise, LeaveGroup, Outer
    <3> QED
      BY <1>a, <2>0, <3>1, <3>2
  <2>4. CASE LeaveBody
    <3>1. at = "body"
      BY <2>4 DEF LeaveBody
    <3> QED
      BY <1>a, <2>0, <3>1
  <2>5. CASE TimeoutExit \/ TimeoutUncancel \/ TimeoutEnd \/ AwaitAfter \/ Reraise
    BY <1>a, <2>0, <2>5
       DEF TimeoutExit, TimeoutUncancel, TimeoutEnd, CallUncancel, AwaitAfter, Reraise
  <2>6. CASE EndOfTask
    <3>1. at' = at /\ at \in OuterPlaces
      BY <1>0, <2>6 DEF EndOfTask, Settle, PlaceOfPc, scopeVars
    <3> QED
      BY <1>a, <2>0, <3>1
  <2>7. CASE GroupRecancelled
    <3>1. at' \in OuterPlaces /\ ca[Self].pc \in {"true", "false"}
      BY <2>7 DEF GroupRecancelled, LeaveGroup, Outer
    <3> QED
      BY <2>0, <3>1 DEF SelfCancels
  <2> QED
    BY <1>1, <2>1, <2>2, <2>3, <2>4, <2>5, <2>6, <2>7 DEF Coroutine
<1>2. CASE Elsewhere
  <2>1. UNCHANGED <<ca, at>>
    BY <1>2, ElsewhereEffect
  <2>2. pc' = pc \/ pc # "run"
    BY <1>2
       DEF Elsewhere, Fire, OnTimeout, OnTimeoutEnd, AwaitStep, Arm, Ready, Resume, Unarm, Read,
                UncancelStep, UncancelStore, UncancelTest, Withdraw, CompleteFuture, WakeFuture, Rest,
                vars, cancelVars, taskVars
  <2> QED
    BY <1>a, <2>1, <2>2
<1>3. ASSUME NEW k \in Kids, CreateTask(k) \/ AddMember(k) \/ AddCallback(k) PROVE SelfCancels'
  <2>1. ca' = ca /\ at \in {"body", "add"} /\ at' \in {"body", "add", "g_exit"}
    BY <1>3 DEF CreateTask, AddMember, AddCallback, cancelVars
  <2> QED
    BY <1>a, <2>1
<1>4. ASSUME NEW k \in Kids,
             KidEnds(k) \/ OnTaskDone(k) \/ CallbackAbort(k) \/ CallbackCancelled(k) \/ CallbackWake(k)
             \/ CallbackSet(k)
      PROVE  SelfCancels'
  <2>1. UNCHANGED <<ca, at, pc>>
    BY <1>4 DEF KidEnds, OnTaskDone, CallbackAbort, CallbackCancelled, CallbackWake, CallbackSet,
                cancelVars, taskVars
  <2> QED
    BY <1>a, <2>1
<1>5. ASSUME NEW c \in Cancellers, CancelStep(c) \/ (Cancel(c) /\ MayCancel(c)), UNCHANGED scopeVars
      PROVE  SelfCancels'
  <2>0. UNCHANGED <<at, pc>>
    BY <1>5 DEF CancelStep, Cancel, CancelCount, CancelLook, CancelFuture, CancelDeliver,
       scopeVars, taskVars
  <2>1. CASE c # Self
    <3>1. ca'[Self].pc = ca[Self].pc
      BY <1>0, <1>5, <2>1, CancelGoesOn, Identities
    <3> QED
      BY <1>a, <2>0, <3>1
  <2>2. CASE c = Self /\ CancelStep(c)
    <3>1. ca[Self].pc \notin {"start", "true", "false"} /\ ca'[Self].pc # "false"
      BY <1>0, <2>2, CancelGoesOn
    <3> QED
      BY <2>0, <3>1 DEF SelfCancels
  <2>3. CASE c = Self /\ Cancel(c) /\ MayCancel(c)
    <3>1. at = "g_recancel" /\ pc = "run"
      BY <2>3, Identities DEF MayCancel
    <3>2. tstate = "PENDING"
      BY <1>0, <3>1 DEF PlaceOfPc
    <3>3. ca'[Self].pc = "count"
      BY <1>0, <2>3, <3>2, CancelGoesOn
    <3> QED
      BY <2>0, <3>1, <3>3 DEF SelfCancels
  <2> QED
    BY <1>5, <2>1, <2>2, <2>3
<1> QED
  BY <1>0, <1>1, <1>2, <1>3, <1>4, <1>5, KindsOfSteps

-----------------------------------------------------------------------------
\* The count.

LEMMA CountedFinite == IsFiniteSet(Counted) /\ Cardinality(Counted) \in Nat
<1>1. IsFiniteSet(Counted)
  BY IdentityAssumption, FS_Subset DEF Counted
<1> QED
  BY <1>1, FS_CardinalityType

\* The parts of the count, where the invariants say what they are.
LEMMA CountParts ==
  ASSUME BaseInv, CancelInv, CountIsExact, ~clash, late = {}
  PROVE  /\ OfTimer \in {0, 1} /\ OfKids \in {0, 1} /\ OfSelf \in {0, 1}
         /\ Cardinality(Counted) \in Nat /\ numCancels \in Nat
         /\ numCancels + OfSelf = Cardinality(Counted) + OfTimer + OfKids
         /\ at \in {"g_again", "g_recancel"} => Cardinality(Counted) + OfTimer + OfKids > 0
         /\ at # "g_recancel" => OfSelf = 0
         /\ at = "t_uncancel" \/ (at = "t_end" /\ pc = "uncancel") => OfTimer = 1
         /\ at = "g_uncancel" \/ (at = "g_uncancelled" /\ pc = "uncancel") => OfKids = 1
         /\ Busy(Timer) => ~TimerTaken
         /\ \A k \in Kids : Busy(k) => ~GroupTaken /\ \A j \in Kids : j # k => ca[j].pc = "start"
         /\ Busy(Self) => at = "g_recancel" /\ pc = "run"
         /\ OfSelf = 1 => at = "g_recancel" /\ ca[Self].pc \in {"start", "count"}
<1> USE DEF CancelInv
<1>1. OfTimer \in {0, 1} /\ OfKids \in {0, 1} /\ OfSelf \in {0, 1} /\ (at # "g_recancel" => OfSelf = 0)
  BY DEF OfTimer, OfKids, OfSelf
<1>2. Cardinality(Counted) \in Nat /\ numCancels \in Nat
  BY CountedFinite DEF BaseInv, TaskInv, TaskTyped
<1>3. /\ numCancels + OfSelf = Cardinality(Counted) + OfTimer + OfKids
      /\ at \in {"g_again", "g_recancel"} => Cardinality(Counted) + OfTimer + OfKids > 0
  BY DEF CountIsExact
<1>4. ASSUME at = "t_uncancel" \/ (at = "t_end" /\ pc = "uncancel") PROVE OfTimer = 1
  <2>1. tmo.lock \in {NoFuture, Timer}
    BY DEF BaseInv, ScopeTyped, TimeoutRecords
  <2>2. ca[Timer].pc = "true"
    BY <1>4, <2>1 DEF TimerCancels
  <2> QED
    BY <1>4, <2>2 DEF OfTimer, TimerTaken, Counting
<1>5. ASSUME at = "g_uncancel" \/ (at = "g_uncancelled" /\ pc = "uncancel") PROVE OfKids = 1
  <2>1. grp.req /\ at \in LeavePlaces
    BY <1>5 DEF BaseLeaves, LeavePlaces
  <2>2. PICK k \in Kids : Chosen(k)
    BY <2>1 DEF KidCancels
  <2>3. ~Cancelling(k) /\ ca[k].pc # "false"
    BY <2>1 DEF LateCancels
  <2>4. Started(k) /\ ~Busy(k)
    BY <2>2, <2>3 DEF Chosen, KidCancels, Cancelling
  <2>5. ca[k].pc = "true"
    BY <2>3, <2>4 DEF Started, Busy
  <2>6. ~GroupTaken
    BY <1>5 DEF GroupTaken, OuterPlaces
  <2> QED
    BY <2>5, <2>6 DEF OfKids, Counting
<1>6. Busy(Timer) => ~TimerTaken
  BY DEF TimerCancels, TimerTaken
<1>7. ASSUME NEW k \in Kids, Busy(k)
      PROVE  ~GroupTaken /\ \A j \in Kids : j # k => ca[j].pc = "start"
  <2>1. kid[k].cb = "cancel"
    BY <1>7 DEF KidCancels
  <2>2. at \notin LeavePlaces \cup OuterPlaces
    BY <2>1 DEF LateCancels, Cancelling
  <2>3. ~GroupTaken
    BY <2>2 DEF GroupTaken, LeavePlaces
  <2>4. \A j \in Kids : j # k => ca[j].pc = "start"
    BY <2>1 DEF KidCancels, Chosen, Cancelling, Started
  <2> QED
    BY <2>3, <2>4
<1>8. Busy(Self) => at = "g_recancel" /\ pc = "run"
  BY DEF SelfCancels, Busy, Started
<1>9. ASSUME OfSelf = 1 PROVE at = "g_recancel" /\ ca[Self].pc \in {"start", "count"}
  <2>1. ca[Self].pc \in CancelPCs
    BY CancelRecordTyped, Identities DEF BaseInv, TaskInv
  <2> QED
    BY <1>9, <2>1 DEF OfSelf, SelfCancels, Counting, CancelPCs
<1> QED
  BY <1>1, <1>2, <1>3, <1>4, <1>5, <1>6, <1>7, <1>8, <1>9

\* The steps of a cancel that do count: each is one more of the count, and of what it is the
\* sum of.
LEMMA CountStep ==
  ASSUME BaseInv, CancelInv, CountIsExact, ~clash, late = {},
         NEW c \in Cancellers, CancelCount(c), ~clash', UNCHANGED scopeVars
  PROVE  CountIsExact'
<1> DEFINE Sum == Cardinality(Counted) + OfTimer + OfKids
<1>0. /\ ca[c].pc = "count" /\ ca'[c].pc = "look" /\ \A d \in Cancellers : d # c => ca'[d] = ca[d]
      /\ numCancels' = numCancels + 1 /\ UNCHANGED <<at, pc, tmo, grp, mustCancel>>
  <2>1. Cancels(c) /\ TaskTyped
    BY DEF Cancels, BaseInv, TaskInv
  <2>2. numCancels = ca[c].n
    BY DEF CancelCount
  <2> QED
    BY <2>1, <2>2, CancelEffect DEF CancelCount, scopeVars
<1>1. TimerTaken' = TimerTaken /\ GroupTaken' = GroupTaken
  BY <1>0 DEF TimerTaken, GroupTaken
<1>2. c \notin Outsiders => Counted' = Counted
  BY <1>0, Identities DEF Counted
<1>3. c # Timer => OfTimer' = OfTimer
  BY <1>0, <1>1, Identities DEF OfTimer
<1>4. c \notin Kids => OfKids' = OfKids
  BY <1>0, <1>1, Identities DEF OfKids
<1>5. c # Self => OfSelf' = OfSelf
  BY <1>0, Identities DEF OfSelf
<1>6. c \in Outsiders \cup Kids \cup {Timer, Self}
  BY CancellersAssumption
<1>7. Cardinality(Counted) \in Nat /\ OfTimer \in {0, 1} /\ OfKids \in {0, 1} /\ OfSelf \in {0, 1}
      /\ numCancels \in Nat /\ numCancels + OfSelf = Sum
      /\ (at \in {"g_again", "g_recancel"} => Sum > 0)
  BY CountParts
<1>8. numCancels' + OfSelf' = Sum' /\ Sum' >= Sum
  <2>1. CASE c \in Outsiders
    <3>1. c \notin Counted /\ Counted' = Counted \cup {c}
      BY <1>0, <2>1, Identities DEF Counted
    <3>2. Cardinality(Counted)' = Cardinality(Counted) + 1
      BY <3>1, CountedFinite, FS_AddElement
    <3>3. OfTimer' = OfTimer /\ OfKids' = OfKids /\ OfSelf' = OfSelf
      BY <1>3, <1>4, <1>5, <2>1, Identities
    <3> QED
      BY <1>0, <1>7, <3>2, <3>3
  <2>2. CASE c = Timer
    <3>1. ~TimerTaken
      BY <1>0, <2>2, CountParts DEF Busy
    <3>2. OfTimer = 0 /\ OfTimer' = 1
      BY <1>0, <1>1, <2>2, <3>1 DEF OfTimer, Counting
    <3>3. Cardinality(Counted)' = Cardinality(Counted) /\ OfKids' = OfKids /\ OfSelf' = OfSelf
      BY <1>2, <1>4, <1>5, <2>2, Identities
    <3> QED
      BY <1>0, <1>7, <3>2, <3>3
  <2>3. CASE c \in Kids
    <3>1. ~GroupTaken /\ \A j \in Kids : j # c => ca[j].pc = "start"
      BY <1>0, <2>3, CountParts DEF Busy
    <3>2. OfKids = 0 /\ OfKids' = 1
      BY <1>0, <1>1, <2>3, <3>1, Identities DEF OfKids, Counting
    <3>3. Cardinality(Counted)' = Cardinality(Counted) /\ OfTimer' = OfTimer /\ OfSelf' = OfSelf
      BY <1>2, <1>3, <1>5, <2>3, Identities
    <3> QED
      BY <1>0, <1>7, <3>2, <3>3
  <2>4. CASE c = Self
    <3>1. at = "g_recancel" /\ pc = "run"
      BY <1>0, <2>4, CountParts DEF Busy
    <3>2. OfSelf = 1 /\ OfSelf' = 0
      BY <1>0, <2>4, <3>1 DEF OfSelf, Counting
    <3>3. Cardinality(Counted)' = Cardinality(Counted) /\ OfTimer' = OfTimer /\ OfKids' = OfKids
      BY <1>2, <1>3, <1>4, <2>4, Identities
    <3> QED
      BY <1>0, <1>7, <3>2, <3>3
  <2> QED
    BY <1>6, <2>1, <2>2, <2>3, <2>4
<1>9. (at \in {"g_again", "g_recancel"})' => Sum' > 0
  <2>1. Sum' \in Int /\ Sum \in Int
    <3>1. OfSelf' \in {0, 1}
      BY DEF OfSelf
    <3>2. Sum' = numCancels' + OfSelf'
      BY <1>8
    <3> QED
      BY <1>0, <1>7, <3>1, <3>2
  <2> QED
    BY <1>0, <1>7, <1>8, <2>1
<1> QED
  BY <1>0, <1>7, <1>8, <1>9 DEF CountIsExact

\* What a cancel does after it was counted.
LEMMA DeliverStep ==
  ASSUME BaseInv, CancelInv, CountIsExact, ~clash, late = {},
         NEW c \in Cancellers, Cancel(c) \/ (CancelStep(c) /\ ~CancelCount(c)), UNCHANGED scopeVars
  PROVE  CountIsExact'
<1>0. /\ \A d \in Cancellers : d # c => ca'[d].pc = ca[d].pc
      /\ UNCHANGED <<at, pc, tmo, grp, numCancels>>
      /\ Cancel(c) => /\ ca[c].pc = "start" /\ ca'[c].pc \in {"count", "false"}
                      /\ mustCancel' = mustCancel
      /\ ~Cancel(c) => ca[c].pc \in Counting /\ ca'[c].pc \in Counting /\ Busy(c)
  <2>1. TaskTyped /\ ca[c].pc \in CancelPCs
    BY CancelRecordTyped DEF BaseInv, TaskInv
  <2>2. CancelLook(c) \/ CancelFuture(c) \/ CancelDeliver(c) \/ Cancel(c)
    BY DEF CancelStep
  <2>3. Cancels(c)
    BY <2>2 DEF Cancels
  <2>4. UNCHANGED <<at, pc, tmo, grp, numCancels>>
    BY <2>2 DEF Cancel, CancelLook, CancelFuture, CancelDeliver, scopeVars, taskVars, bodyVars
  <2>5. Cancel(c) => /\ ca[c].pc = "start" /\ ca'[c].pc \in {"count", "false"}
                     /\ mustCancel' = mustCancel
    BY <2>1, <2>3, CancelEffect DEF Cancel, taskVars
  <2>6. ~Cancel(c) => ca[c].pc \in Counting /\ ca'[c].pc \in Counting /\ Busy(c)
    <3>1. ~Cancel(c) => ca[c].pc \in Counting /\ Busy(c)
      BY <2>2 DEF CancelLook, CancelFuture, CancelDeliver, Counting, Busy
    <3>2. ~Cancel(c) => ca'[c].pc \in Counting
      BY <2>1, <2>2, <2>3, CancelEffect DEF Counting
    <3> QED
      BY <3>1, <3>2
  <2> QED
    BY <2>1, <2>3, <2>4, <2>5, <2>6, CancelEffect
<1>1. TimerTaken' = TimerTaken /\ GroupTaken' = GroupTaken
  BY <1>0 DEF TimerTaken, GroupTaken
<1>2. \A d \in Cancellers : ca'[d].pc \in Counting <=> ca[d].pc \in Counting
  BY <1>0 DEF Counting
<1>3. Counted' = Counted
  <2>1. \A d \in Cancellers : ca'[d].pc \in {"start", "count", "false"} <=> ca[d].pc \in {"start", "count", "false"}
    BY <1>0 DEF Counting
  <2> QED
    BY <2>1, Identities DEF Counted
<1>4. OfTimer' = OfTimer /\ OfKids' = OfKids /\ OfSelf' = OfSelf
  BY <1>0, <1>1, <1>2, Identities DEF OfTimer, OfKids, OfSelf
<1>5. ASSUME ~Cancel(c)
      PROVE  numCancels > 0 \/ (at = "g_recancel" /\ ca[Self].pc \in {"start", "count"})
  <2>1. ca[c].pc \in Counting /\ Busy(c) /\ c \in Outsiders \cup Kids \cup {Timer, Self}
    BY <1>0, <1>5, CancellersAssumption
  <2>2. Cardinality(Counted) + OfTimer + OfKids > 0
    <3>0. Cardinality(Counted) \in Nat /\ OfTimer \in {0, 1} /\ OfKids \in {0, 1}
      BY CountParts
    <3>1. CASE c \in Outsiders
      <4>1. c \in Counted
        BY <2>1, <3>1 DEF Counted, Counting
      <4>2. Cardinality(Counted) # 0
        BY <4>1, CountedFinite, FS_EmptySet
      <4> QED
        BY <3>0, <4>2
    <3>2. CASE c = Timer
      <4>1. OfTimer = 1
        BY <2>1, <3>2, CountParts DEF OfTimer
      <4> QED
        BY <3>0, <4>1
    <3>3. CASE c \in Kids
      <4>1. OfKids = 1
        BY <2>1, <3>3, CountParts DEF OfKids
      <4> QED
        BY <3>0, <4>1
    <3>4. CASE c = Self
      BY <2>1, <3>4, CountParts
    <3> QED
      BY <2>1, <3>1, <3>2, <3>3, <3>4
  <2>3. CASE OfSelf = 1
    BY <2>3, CountParts
  <2>4. CASE OfSelf = 0
    BY <2>2, <2>4, CountParts
  <2> QED
    BY <2>3, <2>4, CountParts
<1>6. ASSUME mustCancel'
      PROVE  (\/ numCancels > 0 \/ pc \in {"uncancel_test", "withdraw"}
              \/ at = "g_recancel" /\ ca[Self].pc \in {"start", "count"})'
  <2>1. CASE Cancel(c)
    <3>1. ca[Self].pc \in {"start", "count"} /\ at = "g_recancel" => ca'[Self].pc \in {"start", "count"}
      <4>1. ca'[Self].pc \in {"start", "count", "false"} \/ ca'[Self].pc = ca[Self].pc
        BY <1>0, <2>1, Identities
      <4>2. at = "g_recancel" => ca'[Self].pc # "false"
        <5>1. at = "g_recancel" => tstate = "PENDING"
          BY DEF BaseInv, GroupInv, PlaceOfPc
        <5>2. ca[Self].pc # "false" /\ TaskTyped
          BY DEF CancelInv, SelfCancels, BaseInv, TaskInv
        <5> QED
          BY <1>0, <2>1, <5>1, <5>2, CancelGoesOn, Identities
      <4> QED
        BY <4>1, <4>2, <1>0, <2>1, Identities
    <3> QED
      BY <1>0, <1>6, <2>1, <3>1 DEF CountIsExact
  <2>2. CASE ~Cancel(c)
    <3>1. c = Self => ca[Self].pc \notin {"start", "count"}
      BY <1>0, <2>2 DEF Counting
    <3> QED
      BY <1>0, <1>5, <2>2, <3>1, Identities
  <2> QED
    BY <2>1, <2>2
<1> QED
  BY <1>0, <1>3, <1>4, <1>6 DEF CountIsExact

\* uncancel takes back the cancel of the scope that calls it.
LEMMA UncancelCounts ==
  ASSUME BaseInv, CancelInv, CountIsExact, ~clash, late = {}, UncancelStep, ~clash', UNCHANGED scopeVars
  PROVE  CountIsExact'
<1>0. UNCHANGED <<ca, at, tmo, grp>> /\ Counted' = Counted
  BY DEF UncancelStep, UncancelStore, UncancelTest, Withdraw, scopeVars, Counted
<1>1. CASE UncancelStore
  <2>0. pc = "uncancel" /\ pc' = "uncancel_test" /\ numCancels' = numCancels - 1
    BY <1>1 DEF UncancelStore
  <2>1. at \in {"g_uncancelled", "g_recancel", "t_end"}
    BY <2>0 DEF BaseInv, GroupInv, PlaceOfPc
  <2>2. CASE at = "t_end"
    <3>1. OfTimer = 1 /\ OfSelf = 0
      BY <2>0, <2>2, CountParts
    <3>2. OfTimer' = 0 /\ OfSelf' = 0 /\ OfKids' = OfKids
      <4>1. tmo.state = "expired"
        BY <2>2 DEF CancelInv, TimerCancels
      <4> QED
        BY <1>0, <2>0, <2>2, <4>1 DEF OfTimer, TimerTaken, OfSelf, OfKids, GroupTaken
    <3> QED
      BY <1>0, <2>0, <2>2, <3>1, <3>2, CountParts DEF CountIsExact
  <2>3. CASE at = "g_uncancelled"
    <3>1. OfKids = 1 /\ OfSelf = 0
      BY <2>0, <2>3, CountParts
    <3>2. OfKids' = 0 /\ OfSelf' = 0 /\ OfTimer' = OfTimer
      <4>1. grp.req
        BY <2>3 DEF CancelInv, BaseLeaves
      <4> QED
        BY <1>0, <2>0, <2>3, <4>1 DEF OfTimer, TimerTaken, OfSelf, OfKids, GroupTaken
    <3> QED
      BY <1>0, <2>0, <2>3, <3>1, <3>2, CountParts DEF CountIsExact
  <2>4. CASE at = "g_recancel"
    <3>1. ca[Self].pc = "start"
      BY <2>0, <2>4 DEF CancelInv, SelfCancels, Started, OuterPlaces
    <3>2. OfSelf = 0 /\ OfSelf' = 1 /\ OfKids' = OfKids /\ OfTimer' = OfTimer
      BY <1>0, <2>0, <2>4, <3>1 DEF OfTimer, TimerTaken, OfSelf, OfKids, GroupTaken, Counting
    <3> QED
      BY <1>0, <2>0, <2>4, <3>2, CountParts DEF CountIsExact
  <2> QED
    BY <2>1, <2>2, <2>3, <2>4
<1>2. CASE UncancelTest \/ Withdraw
  <2>0. /\ pc \in {"uncancel_test", "withdraw"} /\ pc' \in {"withdraw", "run"}
        /\ numCancels' = numCancels
        /\ mustCancel' => mustCancel' = mustCancel /\ (numCancels = 0 => pc' = "withdraw")
    BY <1>2 DEF UncancelTest, Withdraw
  <2>1. OfSelf' = OfSelf /\ OfKids' = OfKids /\ OfTimer' = OfTimer
    BY <1>0, <2>0 DEF OfTimer, TimerTaken, OfSelf, OfKids, GroupTaken
  <2> QED
    BY <1>0, <2>0, <2>1, CountParts DEF CountIsExact
<1> QED
  BY <1>1, <1>2 DEF UncancelStep

\* A step that neither counts nor takes back.
LEMMA QuietStep ==
  ASSUME BaseInv, CancelInv, CountIsExact, ~clash, late = {},
         UNCHANGED <<ca, numCancels>>, mustCancel' => mustCancel,
         TimerTaken' = TimerTaken,
         (\E k \in Kids : ca[k].pc \in Counting) => GroupTaken' = GroupTaken,
         OfSelf' = OfSelf,
         at' \in {"g_again", "g_recancel"}
           => at \in {"g_again", "g_recancel"} \/ numCancels > 0,
         pc \in {"uncancel_test", "withdraw"} => pc' = pc,
         at = "g_recancel" => at' = at \/ ca[Self].pc = "true"
  PROVE  CountIsExact'
<1>1. Counted' = Counted
  BY DEF Counted
<1>2. OfTimer' = OfTimer /\ OfKids' = OfKids
  BY DEF OfTimer, OfKids
<1>3. ((at \in {"g_again", "g_recancel"}) => Cardinality(Counted) + OfTimer + OfKids > 0)'
  BY <1>1, <1>2, CountParts
<1>4. numCancels' + OfSelf' = (Cardinality(Counted) + OfTimer + OfKids)'
  BY <1>1, <1>2, CountParts
<1>5. (mustCancel => \/ numCancels > 0 \/ pc \in {"uncancel_test", "withdraw"}
                     \/ at = "g_recancel" /\ ca[Self].pc \in {"start", "count"})'
  BY DEF CountIsExact
<1> QED
  BY <1>3, <1>4, <1>5 DEF CountIsExact

LEMMA CountIsExactStep ==
  BaseInv /\ CancelInv /\ CountIsExact /\ [Next]_vars => CountIsExact'
<1> SUFFICES ASSUME BaseInv, CancelInv, CountIsExact, [Next]_vars, ~clash', late' = {}
             PROVE  CountIsExact'
  BY DEF CountIsExact
<1>0. ScopeTyped /\ TaskTyped /\ PlaceOfPc /\ KidsHeld /\ GroupStaysEmpty
  BY DEF BaseInv, TaskInv, GroupInv, HeldInv
<1>1. ~clash
  <2>1. TaskMove
    BY <1>0, StepsAreMoves
  <2> QED
    BY <2>1
       DEF TaskMove, Await, CompleteFuture, WakeFuture, SetFuture, Arm, Ready, RaiseDue, Resume,
                Unarm, Read, Catch, Uncancel, UncancelStore, UncancelTest, Withdraw, Escape, Fail,
                Return, Settle, Rethrow, Cancel, CancelCount, CancelLook, CancelFuture, CancelDeliver,
                bodyVars, taskVars, cancelVars
<1>2. late = {}
  <2>1. late' = late \/ GroupLoop
    <3>1. CASE Coroutine
      BY <1>0, <3>1, CoroutineEffect
    <3>2. CASE Elsewhere
      BY <3>2, ElsewhereEffect
    <3>3. CASE \E k \in Kids : CreateTask(k) \/ AddMember(k) \/ AddCallback(k)
      BY <3>3 DEF CreateTask, AddMember, AddCallback
    <3>4. CASE \E k \in Kids : KidEnds(k) \/ OnTaskDone(k) \/ CallbackAbort(k) \/ CallbackCancelled(k)
                               \/ CallbackWake(k) \/ CallbackSet(k)
      BY <3>4 DEF KidEnds, OnTaskDone, CallbackAbort, CallbackCancelled, CallbackWake, CallbackSet
    <3>5. CASE UNCHANGED scopeVars
      BY <3>5 DEF scopeVars
    <3> QED
      BY <1>0, <3>1, <3>2, <3>3, <3>4, <3>5, KindsOfSteps
  <2>2. GroupLoop => late = {}
    BY DEF GroupLoop, At, CancelInv, LateCancels, LeavePlaces, OuterPlaces
  <2> QED
    BY <2>1, <2>2
<1> USE <1>1, <1>2
<1>3. ASSUME NEW c \in Cancellers, CancelStep(c) \/ (Cancel(c) /\ MayCancel(c)), UNCHANGED scopeVars
      PROVE  CountIsExact'
  BY <1>3, CountStep, DeliverStep
<1>4. CASE UncancelStep /\ UNCHANGED scopeVars
  BY <1>4, UncancelCounts
\* The places where the cancels of the scopes are being taken back.
<1> DEFINE Taking == {"g_uncancelled", "g_raise", "g_again", "g_recancel"} \cup OuterPlaces
           TakenT == {"t_uncancel", "t_end", "after", "last"}
<1>5. tmo.state = "expired" => at \in TakenT
  BY DEF CancelInv, TimerCancels
\* A step of the coroutine before it takes anything back.
<1>a. ASSUME UNCHANGED <<ca, numCancels, mustCancel>>, pc \notin {"uncancel_test", "withdraw"} \/ pc' = pc,
             at \notin Taking, at' \notin Taking, tmo'.state = "expired" => tmo.state = "expired"
      PROVE  CountIsExact'
  <2>1. TimerTaken' = TimerTaken
    BY <1>5, <1>a DEF TimerTaken, OuterPlaces
  <2>2. GroupTaken' = GroupTaken
    BY <1>a DEF GroupTaken
  <2>3. OfSelf' = OfSelf
    BY <1>a DEF OfSelf
  <2> QED
    BY <1>a, <2>1, <2>2, <2>3, QuietStep
\* A step that does not move the coroutine.
<1>b. ASSUME UNCHANGED <<ca, numCancels, at, grp>>, mustCancel' => mustCancel,
             pc' = pc \/ pc \notin {"uncancel", "uncancel_test", "withdraw"},
             pc' = pc \/ pc' # "uncancel",
             tmo'.state = "expired" <=> tmo.state = "expired"
      PROVE  CountIsExact'
  <2>1. TimerTaken' = TimerTaken /\ GroupTaken' = GroupTaken /\ OfSelf' = OfSelf
    BY <1>b DEF TimerTaken, GroupTaken, OfSelf
  <2> QED
    BY <1>b, <2>1, QuietStep
<1>d. UNCHANGED cancelVars => UNCHANGED <<ca, numCancels, mustCancel, pc>>
  BY DEF cancelVars, taskVars
<1> USE DEF At, Goto
<1>7. CASE Elsewhere
  <2>1. CASE \E d \in Timers : Fire(d) \/ OnTimeoutEnd(d)
    <3>1. UNCHANGED <<cancelVars, at, grp>>
      BY <2>1 DEF Fire, OnTimeoutEnd
    <3>2. tmo'.state = tmo.state
      BY <1>0, <2>1 DEF Fire, OnTimeoutEnd, ScopeTyped, TimeoutRecords
    <3> QED
      BY <1>b, <1>d, <3>1, <3>2
  <2>2. CASE \E d \in Timers : OnTimeout(d)
    <3>1. UNCHANGED <<cancelVars, at, grp>>
      BY <2>2 DEF OnTimeout
    <3>2. tmo'.state = "expired" <=> tmo.state = "expired"
      BY <1>0, <2>2 DEF OnTimeout, ScopeTyped, TimeoutRecords
    <3> QED
      BY <1>b, <1>d, <3>1, <3>2
  <2>3. CASE AwaitStep /\ UNCHANGED scopeVars
    <3>1. UNCHANGED <<ca, numCancels, at, grp, tmo>> /\ (mustCancel' => mustCancel)
      BY <2>3 DEF AwaitStep, Arm, Ready, RaiseDue, Resume, Unarm, Read, scopeVars
    <3>2. pc \in {"arm", "parked", "unarm", "ready", "read"} /\ pc' # "uncancel"
      BY <2>3 DEF AwaitStep, Arm, Ready, RaiseDue, Resume, Unarm, Read
    <3> QED
      BY <1>b, <3>1, <3>2
  <2>4. CASE \E f \in Futs : (CompleteFuture(f) \/ WakeFuture(f)) /\ UNCHANGED scopeVars
    BY <1>b, <2>4 DEF CompleteFuture, WakeFuture, taskVars, scopeVars
  <2>5. CASE Rest \/ UNCHANGED vars
    <3>1. UNCHANGED <<cancelVars, at, grp, tmo>>
      BY <2>5 DEF Rest, vars, scopeVars
    <3> QED
      BY <1>b, <1>d, <3>1
  <2> QED
    BY <1>4, <1>7, <2>1, <2>2, <2>3, <2>4, <2>5 DEF Elsewhere
<1>8. ASSUME NEW k \in Kids, CreateTask(k) \/ AddMember(k) \/ AddCallback(k) PROVE CountIsExact'
  <2>1. UNCHANGED <<cancelVars, tmo>> /\ at \notin Taking /\ at' \notin Taking
    BY <1>8 DEF CreateTask, AddMember, AddCallback, OuterPlaces
  <2> QED
    BY <1>a, <1>d, <2>1
<1>9. ASSUME NEW k \in Kids, KidEnds(k) \/ CallbackCancelled(k) \/ CallbackWake(k) \/ CallbackSet(k)
      PROVE  CountIsExact'
  <2>1. UNCHANGED <<ca, numCancels, mustCancel, pc, at, tmo, grp>>
    BY <1>9, <1>d DEF KidEnds, CallbackCancelled, CallbackWake, CallbackSet, taskVars
  <2> QED
    BY <1>b, <2>1
<1>10. ASSUME NEW k \in Kids, CallbackAbort(k) PROVE CountIsExact'
  <2>1. UNCHANGED <<cancelVars, at, tmo>> /\ grp'.req = grp.req /\ grp'.base = grp.base
    BY <1>0, <1>10, CallbackAbortEffect DEF GroupKept
  <2>2. TimerTaken' = TimerTaken /\ GroupTaken' = GroupTaken /\ OfSelf' = OfSelf
    BY <1>d, <2>1 DEF TimerTaken, GroupTaken, OfSelf
  <2> QED
    BY <1>d, <2>1, <2>2, QuietStep
<1>11. ASSUME NEW k \in Kids, OnTaskDone(k) PROVE CountIsExact'
  <2>1. kid[k].cb = "queued" /\ UNCHANGED <<cancelVars, at, tmo>>
    BY <1>0, <1>11, OnTaskDoneEffect
  <2>2. at \notin LeavePlaces \cup OuterPlaces
    BY <1>0, <2>1 DEF KidsHeld, GroupStaysEmpty
  <2> QED
    BY <1>a, <1>d, <2>1, <2>2 DEF LeavePlaces
\* The coroutine inside the scopes.
<1>12. CASE Enter \/ Extend
  <2>1. UNCHANGED cancelVars /\ at \notin Taking /\ at' \notin Taking
    BY <1>12 DEF Enter, Extend, OuterPlaces
  <2>2. tmo'.state = "expired" => tmo.state = "expired"
    BY <1>0, <1>12 DEF Enter, Extend, Reschedule, ScopeTyped, TimeoutRecords
  <2> QED
    BY <1>a, <1>d, <2>1, <2>2
<1>13. CASE GroupEnter \/ GroupExit \/ GroupAbort \/ GroupLoop \/ GroupClear
  <2>1. UNCHANGED <<cancelVars, tmo>> /\ at \notin Taking /\ at' \notin Taking
    BY <1>13 DEF GroupEnter, GroupExit, GroupAbort, GroupLoop, GroupClear, OuterPlaces
  <2> QED
    BY <1>a, <1>d, <2>1
<1>14. CASE AwaitBody \/ CatchInBody \/ GroupAwait \/ GroupWoken
  <2>1. UNCHANGED <<ca, numCancels, mustCancel, tmo>> /\ at \notin Taking /\ at' \notin Taking
        /\ pc \in {"run", "raise"}
    BY <1>14, <1>d
       DEF AwaitBody, CatchInBody, GroupAwait, GroupWoken, Await, Catch, scopeVars, OuterPlaces
  <2> QED
    BY <1>a, <2>1
<1>15. CASE LeaveBody
  <2>1. /\ UNCHANGED <<ca, numCancels, mustCancel, tmo, grp>> /\ at = "body" /\ pc \in {"run", "raise"}
        /\ at' = IF app.kids # {} THEN "g_exit" ELSE Outer
    BY <1>15, <1>d DEF LeaveBody, Catch
  <2>2. CASE app.kids # {}
    BY <1>a, <2>1, <2>2 DEF OuterPlaces
  <2>3. CASE app.kids = {}
    <3>1. \A k \in Kids : kid[k].cb = "none"
      BY <1>0, <2>3 DEF KidsHeld
    <3>2. \A k \in Kids : ca[k].pc \notin Counting
      BY <3>1 DEF CancelInv, KidCancels, Started, Counting
    <3>3. at' \in {"t_exit", "after"}
      BY <2>1, <2>3 DEF Outer
    <3>4. TimerTaken' = TimerTaken /\ OfSelf' = OfSelf
      BY <1>5, <2>1, <3>3 DEF TimerTaken, OfSelf
    <3> QED
      BY <2>1, <3>2, <3>3, <3>4, QuietStep
  <2> QED
    BY <2>2, <2>3
\* The task leaves the group.
<1>16. CASE GroupEnd
  <2>1. UNCHANGED <<cancelVars, tmo>> /\ at = "g_end" /\ pc = "run"
    BY <1>16 DEF GroupEnd
  <2>2. at' \in {"t_exit", "after", "g_uncancel", "g_raise"}
    BY <1>16 DEF GroupEnd, LeaveGroup, Outer
  <2>3. GroupTaken' = GroupTaken
    <3>1. CASE grp.base
      <4>1. at' \in {"t_exit", "after"} /\ LeaveGroup("base")
        BY <1>16, <3>1 DEF GroupEnd, LeaveGroup, Outer
      <4>2. grp'.base
        BY <1>0, <3>1, <4>1, GroupFieldsEffect
      <4> QED
        BY <2>1, <4>1, <4>2 DEF GroupTaken, OuterPlaces
    <3>2. CASE ~grp.base
      BY <1>16, <2>1, <3>2 DEF GroupEnd, GroupTaken, OuterPlaces
    <3> QED
      BY <3>1, <3>2
  <2>4. TimerTaken' = TimerTaken /\ OfSelf' = OfSelf
    BY <1>5, <2>1, <2>2 DEF TimerTaken, OfSelf
  <2> QED
    BY <1>d, <2>1, <2>2, <2>3, <2>4, QuietStep
<1>17. CASE GroupUncancelled
  <2>1. UNCHANGED <<cancelVars, tmo, grp>> /\ at = "g_uncancelled" /\ pc = "run" /\ at' = "g_raise"
    BY <1>17 DEF GroupUncancelled
  <2>2. TimerTaken' = TimerTaken /\ GroupTaken' = GroupTaken /\ OfSelf' = OfSelf
    BY <1>5, <1>d, <2>1 DEF TimerTaken, GroupTaken, OfSelf
  <2> QED
    BY <1>d, <2>1, <2>2, QuietStep
<1>18. CASE GroupRaise
  <2>1. UNCHANGED <<cancelVars, tmo>> /\ at = "g_raise" /\ pc = "run" /\ ~grp.base
    BY <1>18 DEF GroupRaise, CancelInv, BaseLeaves, LeavePlaces
  <2>2. \/ (\E e : LeaveGroup(e)) /\ at' \in {"t_exit", "after"}
        \/ UNCHANGED grp /\ at' = "g_again" /\ numCancels # 0
    BY <1>18 DEF GroupRaise, LeaveGroup, Outer
  <2>3. grp'.req = grp.req /\ grp'.base = grp.base
    BY <1>0, <2>2, GroupFieldsEffect DEF GroupKept
  <2>4. GroupTaken' = GroupTaken
    BY <2>1, <2>2, <2>3 DEF GroupTaken, OuterPlaces
  <2>5. TimerTaken' = TimerTaken /\ OfSelf' = OfSelf
    BY <1>5, <1>d, <2>1, <2>2 DEF TimerTaken, OfSelf
  <2>6. numCancels \in Nat
    BY <1>0 DEF TaskTyped
  <2> QED
    BY <1>d, <2>1, <2>2, <2>4, <2>5, <2>6, QuietStep
<1>19. CASE GroupRecancelled
  <2>1. /\ UNCHANGED <<cancelVars, tmo>> /\ at = "g_recancel" /\ pc = "run" /\ ~grp.base
        /\ ca[Self].pc = "true" /\ at' \in {"t_exit", "after"} /\ LeaveGroup("group")
    BY <1>19
       DEF GroupRecancelled, LeaveGroup, Outer, CancelInv, BaseLeaves, SelfCancels, LeavePlaces
  <2>2. grp'.req = grp.req /\ grp'.base = grp.base
    BY <1>0, <2>1, GroupFieldsEffect DEF GroupKept
  <2>3. TimerTaken' = TimerTaken /\ GroupTaken' = GroupTaken /\ OfSelf' = OfSelf
    BY <1>5, <1>d, <2>1, <2>2 DEF TimerTaken, GroupTaken, OfSelf, OuterPlaces, Counting
  <2> QED
    BY <1>d, <2>1, <2>3, QuietStep
\* uncancel is never called at zero.
<1>20. ASSUME NEW l, CallUncancel(l), numCancels > 0
       PROVE  /\ UNCHANGED <<ca, numCancels, mustCancel, tmo, grp>> /\ pc = "run" /\ pc' = "uncancel"
              /\ at' = l
  BY <1>20 DEF CallUncancel, Uncancel
<1>21. CASE TimeoutUncancel
  <2>1. at = "t_uncancel" /\ CallUncancel("t_end")
    BY <1>21 DEF TimeoutUncancel
  <2>2. numCancels > 0
    BY <2>1, CountParts
  <2>3. TimerTaken' = TimerTaken /\ GroupTaken' = GroupTaken /\ OfSelf' = OfSelf
    BY <1>20, <2>1, <2>2 DEF TimerTaken, GroupTaken, OfSelf, OuterPlaces
  <2> QED
    BY <1>20, <2>1, <2>2, <2>3, QuietStep
<1>22. CASE GroupUncancel
  <2>1. at = "g_uncancel" /\ CallUncancel("g_uncancelled")
    BY <1>22 DEF GroupUncancel
  <2>2. numCancels > 0
    BY <2>1, CountParts
  <2>3. TimerTaken' = TimerTaken /\ GroupTaken' = GroupTaken /\ OfSelf' = OfSelf
    BY <1>5, <1>20, <2>1, <2>2 DEF TimerTaken, GroupTaken, OfSelf, OuterPlaces
  <2> QED
    BY <1>20, <2>1, <2>2, <2>3, QuietStep
<1>23. CASE GroupAgain
  <2>1. at = "g_again" /\ CallUncancel("g_recancel")
    BY <1>23 DEF GroupAgain
  <2>2. numCancels > 0
    BY <2>1, CountParts
  <2>3. TimerTaken' = TimerTaken /\ GroupTaken' = GroupTaken /\ OfSelf' = OfSelf
    BY <1>5, <1>20, <2>1, <2>2 DEF TimerTaken, GroupTaken, OfSelf, OuterPlaces
  <2> QED
    BY <1>20, <2>1, <2>2, <2>3, QuietStep
\* The task leaves the timeout, and ends.
<1>24. CASE TimeoutExit
  <2>1. /\ UNCHANGED <<cancelVars, grp>> /\ at = "t_exit" /\ pc = "run"
        /\ at' = IF tmo.state = "expiring" THEN "t_uncancel" ELSE "after"
    BY <1>24 DEF TimeoutExit
  <2>2. tmo'.state = IF tmo.state = "expiring" THEN "expired" ELSE "finished"
    BY <1>0, <1>24 DEF TimeoutExit, ScopeTyped, TimeoutRecords
  <2>3. TimerTaken' = TimerTaken /\ GroupTaken' = GroupTaken /\ OfSelf' = OfSelf
    BY <1>5, <2>1, <2>2 DEF TimerTaken, GroupTaken, OfSelf, OuterPlaces
  <2> QED
    BY <1>d, <2>1, <2>3, QuietStep
<1>25. CASE TimeoutEnd
  <2>1. UNCHANGED <<cancelVars, grp, tmo>> /\ at = "t_end" /\ pc = "run" /\ at' = "after"
    BY <1>25 DEF TimeoutEnd
  <2>2. TimerTaken' = TimerTaken /\ GroupTaken' = GroupTaken /\ OfSelf' = OfSelf
    BY <1>d, <2>1 DEF TimerTaken, GroupTaken, OfSelf, OuterPlaces
  <2> QED
    BY <1>d, <2>1, <2>2, QuietStep
<1>26. CASE AwaitAfter \/ Reraise \/ EndOfTask
  <2>1. /\ UNCHANGED <<ca, numCancels, grp, tmo>> /\ (mustCancel' => mustCancel)
        /\ at \in {"after", "last"} /\ at' \in {"after", "last"}
        /\ pc \notin {"uncancel", "uncancel_test", "withdraw"}
    BY <1>0, <1>26
       DEF AwaitAfter, Reraise, EndOfTask, Await, Return, Fail, Escape, Settle, scopeVars,
                       PlaceOfPc
  <2>2. TimerTaken' = TimerTaken /\ GroupTaken' = GroupTaken /\ OfSelf' = OfSelf
    BY <2>1 DEF TimerTaken, GroupTaken, OfSelf, OuterPlaces
  <2> QED
    BY <2>1, <2>2, QuietStep
<1> QED
  BY <1>0, <1>3, <1>7, <1>8, <1>9, <1>10, <1>11, <1>12, <1>13, <1>14, <1>15, <1>16, <1>17, <1>18,
     <1>19,
     <1>21, <1>22, <1>23, <1>24, <1>25, <1>26, KindsOfSteps DEF Coroutine

-----------------------------------------------------------------------------
LEMMA IInvInit == Init => IInv
<1> SUFFICES ASSUME Init PROVE IInv
  OBVIOUS
<1>1. BaseInv
  BY BaseInit
<1>2. /\ pc = "run" /\ at = "enter" /\ late = {} /\ mustCancel = FALSE /\ numCancels = 0
      /\ \A c \in Cancellers : ca[c].pc = "start"
  BY DEF Init, TaskInit, GroupInit
<1>3. grp.req = FALSE /\ grp.base = FALSE /\ \A k \in Kids : kid[k].cb = "none"
  BY DEF Init, GroupInit
<1>4. tmo.state = "created" /\ tmo.lock = NoFuture /\ \A d \in Timers : tpc[d] = "idle"
  BY DEF Init, TimeoutInit
<1>5. TimerCancels
  BY <1>2, <1>4, Identities DEF TimerCancels, Started, Busy, Timers
<1>6. KidCancels /\ LateCancels
  BY <1>2, <1>3, Identities
     DEF KidCancels, LateCancels, Chosen, Cancelling, Started, Busy, LeavePlaces, OuterPlaces
<1>7. BaseLeaves /\ SelfCancels
  BY <1>2, <1>3, Identities DEF BaseLeaves, SelfCancels, Started, LeavePlaces, OuterPlaces
<1>8. CountIsExact
  <2>1. Counted = {}
    BY <1>2, Identities DEF Counted
  <2>2. Cardinality(Counted) = 0
    BY <2>1, FS_EmptySet
  <2>3. OfTimer = 0 /\ OfKids = 0 /\ OfSelf = 0
    BY <1>2, Identities DEF OfTimer, OfKids, OfSelf, Counting
  <2> QED
    BY <1>2, <2>2, <2>3 DEF CountIsExact
<1> QED
  BY <1>1, <1>5, <1>6, <1>7, <1>8 DEF IInv, BaseInv, CancelInv

LEMMA IInvStep == IInv /\ [Next]_vars => IInv'
  BY BaseStep, TimerCancelsStep, KidCancelsStep, LateCancelsStep, BaseLeavesStep, SelfCancelsStep,
     CountIsExactStep DEF IInv, BaseInv, CancelInv

\* timeout and TaskGroup take back their own cancels and no other: a task that has left them
\* has counted the cancels from outside, each once, and has none due if there was none.  The
\* exceptions are in CancelContained: a done callback that cancels late, two unlocked
\* changes of the count that became one, and an exit for KeyboardInterrupt.
THEOREM CancelsAreContained == Spec => []CancelContained
<1>1. ASSUME IInv PROVE CancelContained
  <2> SUFFICES ASSUME pc = "run", at \in {"after", "last"}, late = {}, ~clash, exc # "base"
               PROVE  /\ numCancels = Cardinality(Counted)
                      /\ (\A o \in Outsiders : ca[o].pc = "start") => ~mustCancel
    BY DEF CancelContained
  <2>0. BaseInv /\ CancelInv /\ CountIsExact
    BY <1>1 DEF IInv, BaseInv
  <2>1. OfTimer = 0
    <3>1. tmo.state \in {"created", "entered", "expiring", "expired", "finished"}
      BY <2>0 DEF BaseInv, ScopeTyped, TimeoutRecords
    <3>2. ca[Timer].pc = "start" \/ TimerTaken
      BY <2>0, <3>1 DEF CancelInv, TimerCancels, Started, TimerTaken
    <3> QED
      BY <3>2 DEF OfTimer, Counting
  <2>2. OfKids = 0
    <3>1. ~grp.base
      BY <2>0 DEF CancelInv, BaseLeaves, OuterPlaces
    <3>2. grp.req => GroupTaken
      BY <3>1 DEF GroupTaken, OuterPlaces
    <3>3. ~grp.req => \A k \in Kids : ca[k].pc = "start"
      BY <2>0 DEF CancelInv, KidCancels, Chosen, Started
    <3> QED
      BY <3>2, <3>3 DEF OfKids, Counting
  <2>3. OfSelf = 0
    BY DEF OfSelf
  <2>4. numCancels = Cardinality(Counted)
    BY <2>0, <2>1, <2>2, <2>3, CountParts
  <2>5. ASSUME \A o \in Outsiders : ca[o].pc = "start" PROVE ~mustCancel
    <3>1. Counted = {}
      BY <2>5 DEF Counted
    <3>2. numCancels = 0
      BY <2>4, <3>1, FS_EmptySet
    <3> QED
      BY <2>0, <3>2 DEF CountIsExact
  <2> QED
    BY <2>4, <2>5
<1> QED
  BY <1>1, IInvInit, IInvStep, PTL DEF Spec
=============================================================================
