------------------------- MODULE CoordinationProofs -------------------------
(***************************************************************************)
(* Proofs about the two ways tasks wait for each other that share no state *)
(* with the rest: Semaphore, for every number of tasks, permits, calls of  *)
(* acquire and cancels, and Combinators, for every set of children and calls.*)
(***************************************************************************)
EXTENDS Semaphore, Combinators, FiniteSetTheorems, TLAPS

-----------------------------------------------------------------------------
\* Semaphore.

\* A task that has queued its future and has not left acquire.
Waiting(t) == pc[t] \in {"await", "parked", "except"}

\* A future with a task that will look at it.
Awaited(f) == \E t \in Tasks : Waiting(t) /\ fut[t] = f

-----------------------------------------------------------------------------
\* The inductive strengthening, part by part.

\* release holds the mutex throughout.
MutexHeld == \A t \in Tasks : pc[t] \in {"release", "set"} => mu = t

\* Every acquire has a future of its own, and those of later acquires are pending.
FuturesApart ==
  /\ \A t \in Tasks : Waiting(t) => fut[t] \in Futs /\ fut[t] <= begun
  /\ \A t, u \in Tasks : Waiting(t) /\ Waiting(u) /\ fut[t] = fut[u] => t = u
  /\ \A f \in Futs : f > begun => Pending(f)

\* A queued future is queued once, has a task waiting for it and no permit.
QueueSound ==
  /\ \A i, j \in DOMAIN waiters : waiters[i] = waiters[j] => i = j
  /\ \A f \in Futs : Queued(f) => fstate[f] # "FINISHED" /\ Awaited(f)

\* So has the future a release has popped, which is no longer queued.
OfferSound ==
  /\ \A t \in Tasks : pc[t] = "set" => offered[t] \in Futs
  /\ \A t \in Tasks, f \in Futs :
       pc[t] = "set" /\ offered[t] = f => fstate[f] # "FINISHED" /\ Awaited(f) /\ ~Queued(f)

\* Only futures that a task was parked on are cancelled.
CancelSound ==
  /\ \A t \in Tasks : pc[t] = "await" => fstate[fut[t]] # "CANCELLED"
  /\ \A c \in Cancellers : ca[c].pc = "cancel" =>
       /\ ca[c].t \in Tasks
       /\ ca[c].f \in Futs
       /\ ca[c].f <= begun
       /\ \A t \in Tasks : pc[t] = "await" => fut[t] # ca[c].f

IInv ==
  /\ TypeOK /\ MutexHeld /\ FuturesApart /\ QueueSound /\ OfferSound /\ CancelSound
  /\ NoIdlePermit
-----------------------------------------------------------------------------
\* Typing.

\* What the operations on the queue return.
LEMMA QueueFacts ==
  ASSUME NEW S, NEW s \in Seq(S)
  PROVE  /\ \A x \in S : Append(s, x) \in Seq(S)
         /\ s # <<>> => Head(s) \in S /\ Tail(s) \in Seq(S)
  OBVIOUS

LEMMA WithoutFacts ==
  ASSUME NEW S, NEW s \in Seq(S), NEW i \in DOMAIN s
  PROVE  /\ Without(s, i) \in Seq(S)
         /\ Len(Without(s, i)) = Len(s) - 1
         /\ \A j \in 1 .. (Len(s) - 1) : Without(s, i)[j] = IF j < i THEN s[j] ELSE s[j + 1]
  BY DEF Without

LEMMA TypeInit == Init => TypeOK
  BY SizeAssumption DEF Init, TypeOK, Canceller, TaskPCs, CancelPCs, Futs

LEMMA TypeStep == TypeOK /\ [Next]_vars => TypeOK'
<1> SUFFICES ASSUME TypeOK, [Next]_vars PROVE TypeOK'
  OBVIOUS
<1> USE SizeAssumption DEF TypeOK, Canceller, TaskPCs, CancelPCs, Goto, semVars, taskVars
<1>1. ASSUME NEW t \in Tasks, Acquire(t) PROVE TypeOK'
  <2>1. begun + 1 \in Futs /\ begun + 1 \in 0..MaxAcquires
    BY <1>1 DEF Acquire, Futs
  <2>2. waiters' \in Seq(Futs)
    <3>1. waiters \in Seq(Futs) /\ (waiters' = waiters \/ waiters' = Append(waiters, begun + 1))
      BY <1>1 DEF Acquire
    <3> QED
      BY ONLY <2>1, <3>1, QueueFacts
  <2>3. value' \in Nat
    BY <1>1 DEF Acquire
  <2>4. pc' \in [Tasks -> TaskPCs] /\ fut' \in [Tasks -> Futs \cup {None}]
    BY <1>1, <2>1 DEF Acquire
  <2> QED
    BY <1>1, <2>1, <2>2, <2>3, <2>4 DEF Acquire
<1>2. ASSUME NEW t \in Tasks, Arm(t) PROVE TypeOK'
  BY <1>2 DEF Arm
<1>3. ASSUME NEW t \in Tasks, Resume(t) PROVE TypeOK'
  BY <1>3 DEF Resume
<1>4. ASSUME NEW t \in Tasks, Except(t) PROVE TypeOK'
  <2>1. waiters' \in Seq(Futs)
    BY <1>4, WithoutFacts DEF Except
  <2>2. pc' \in [Tasks -> TaskPCs]
    BY <1>4 DEF Except
  <2> QED
    BY <1>4, <2>1, <2>2 DEF Except
<1>5. ASSUME NEW t \in Tasks, OtherAwait(t) PROVE TypeOK'
  BY <1>5 DEF OtherAwait
<1>6. ASSUME NEW t \in Tasks, Release(t) PROVE TypeOK'
  BY <1>6 DEF Release
<1>7. ASSUME NEW t \in Tasks, ReleasePop(t) PROVE TypeOK'
  <2>1. waiters' \in Seq(Futs) /\ Head(waiters) \in Futs
    BY <1>7, QueueFacts DEF ReleasePop
  <2>2. pc' \in [Tasks -> TaskPCs] /\ offered' \in [Tasks -> Futs \cup {None}]
    BY <1>7, <2>1 DEF ReleasePop
  <2> QED
    BY <1>7, <2>1, <2>2 DEF ReleasePop
<1>8. ASSUME NEW t \in Tasks, ReleaseSet(t) PROVE TypeOK'
  BY <1>8 DEF ReleaseSet
<1>9. ASSUME NEW t \in Tasks, ReleaseEnd(t) PROVE TypeOK'
  BY <1>9 DEF ReleaseEnd
<1>10. ASSUME NEW c \in Cancellers, NEW t \in Tasks, Cancel(c, t) PROVE TypeOK'
  <2>1. CASE pc[t] = "parked"
    <3>1. Canceller("cancel", t, fut[t])
            \in [pc : CancelPCs, t : Tasks \cup {None}, f : Futs \cup {None}]
      OBVIOUS
    <3>2. ca' = [ca EXCEPT ![c] = Canceller("cancel", t, fut[t])]
      BY <1>10, <2>1 DEF Cancel
    <3>3. ca' \in [Cancellers -> [pc : CancelPCs, t : Tasks \cup {None}, f : Futs \cup {None}]]
      BY <3>1, <3>2
    <3> QED
      BY <1>10, <2>1, <3>3 DEF Cancel
  <2>2. CASE pc[t] # "parked"
    <3>1. ca' = [ca EXCEPT ![c] = Canceller("end", None, None)]
      BY <1>10, <2>2 DEF Cancel
    <3>2. ca' \in [Cancellers -> [pc : CancelPCs, t : Tasks \cup {None}, f : Futs \cup {None}]]
      BY <3>1
    <3> QED
      BY <1>10, <2>2, <3>2 DEF Cancel
  <2> QED
    BY <2>1, <2>2
<1>11. ASSUME NEW c \in Cancellers, CancelFuture(c) PROVE TypeOK'
  BY <1>11 DEF CancelFuture
<1>12. CASE Rest
  BY <1>12 DEF Rest, vars
<1>13. CASE UNCHANGED vars
  BY <1>13 DEF vars
<1> QED
  BY <1>1, <1>2, <1>3, <1>4, <1>5, <1>6, <1>7, <1>8, <1>9, <1>10, <1>11, <1>12, <1>13
     DEF Next, TaskStep

\* Every variable keeps its type: in particular _value is never negative.
THEOREM SemaphoreTyped == Spec => []TypeOK
  BY TypeInit, TypeStep, PTL DEF Spec

-----------------------------------------------------------------------------
\* The structure of the queue.

\* Nobody but its holder takes a step that needs the mutex.
LEMMA MutexStep == TypeOK /\ MutexHeld /\ [Next]_vars => MutexHeld'
<1> SUFFICES ASSUME TypeOK, MutexHeld, [Next]_vars PROVE MutexHeld'
  OBVIOUS
<1> USE TasksAssumption DEF TypeOK, MutexHeld, Goto, semVars, taskVars
<1>1. ASSUME NEW t \in Tasks, Acquire(t) PROVE MutexHeld'
  BY <1>1 DEF Acquire
<1>2. ASSUME NEW t \in Tasks, Arm(t) PROVE MutexHeld'
  BY <1>2 DEF Arm
<1>3. ASSUME NEW t \in Tasks, Resume(t) PROVE MutexHeld'
  BY <1>3 DEF Resume
<1>4. ASSUME NEW t \in Tasks, Except(t) PROVE MutexHeld'
  BY <1>4 DEF Except
<1>5. ASSUME NEW t \in Tasks, OtherAwait(t) PROVE MutexHeld'
  BY <1>5 DEF OtherAwait
<1>6. ASSUME NEW t \in Tasks, Release(t) PROVE MutexHeld'
  BY <1>6 DEF Release
<1>7. ASSUME NEW t \in Tasks, ReleasePop(t) PROVE MutexHeld'
  BY <1>7 DEF ReleasePop
<1>8. ASSUME NEW t \in Tasks, ReleaseSet(t) PROVE MutexHeld'
  BY <1>8 DEF ReleaseSet
<1>9. ASSUME NEW t \in Tasks, ReleaseEnd(t) PROVE MutexHeld'
  BY <1>9 DEF ReleaseEnd
<1>10. ASSUME NEW c \in Cancellers, NEW t \in Tasks, Cancel(c, t) PROVE MutexHeld'
  BY <1>10 DEF Cancel
<1>11. ASSUME NEW c \in Cancellers, CancelFuture(c) PROVE MutexHeld'
  BY <1>11 DEF CancelFuture
<1>12. CASE Rest
  BY <1>12 DEF Rest, vars
<1>13. CASE UNCHANGED vars
  BY <1>13 DEF vars
<1> QED
  BY <1>1, <1>2, <1>3, <1>4, <1>5, <1>6, <1>7, <1>8, <1>9, <1>10, <1>11, <1>12, <1>13
     DEF Next, TaskStep

\* A permit is only freed when the queue is empty.
LEMMA IdleStep == TypeOK /\ NoIdlePermit /\ [Next]_vars => NoIdlePermit'
<1> SUFFICES ASSUME TypeOK, NoIdlePermit, [Next]_vars PROVE NoIdlePermit'
  OBVIOUS
<1> USE DEF TypeOK, NoIdlePermit, Goto, semVars, taskVars
<1>1. ASSUME NEW t \in Tasks, Acquire(t) PROVE NoIdlePermit'
  BY <1>1 DEF Acquire
<1>2. ASSUME NEW t \in Tasks, Arm(t) PROVE NoIdlePermit'
  BY <1>2 DEF Arm
<1>3. ASSUME NEW t \in Tasks, Resume(t) PROVE NoIdlePermit'
  BY <1>3 DEF Resume
<1>4. ASSUME NEW t \in Tasks, Except(t) PROVE NoIdlePermit'
  BY <1>4 DEF Except
<1>5. ASSUME NEW t \in Tasks, OtherAwait(t) PROVE NoIdlePermit'
  BY <1>5 DEF OtherAwait
<1>6. ASSUME NEW t \in Tasks, Release(t) PROVE NoIdlePermit'
  BY <1>6 DEF Release
<1>7. ASSUME NEW t \in Tasks, ReleasePop(t) PROVE NoIdlePermit'
  BY <1>7 DEF ReleasePop
<1>8. ASSUME NEW t \in Tasks, ReleaseSet(t) PROVE NoIdlePermit'
  BY <1>8 DEF ReleaseSet
<1>9. ASSUME NEW t \in Tasks, ReleaseEnd(t) PROVE NoIdlePermit'
  BY <1>9 DEF ReleaseEnd
<1>10. ASSUME NEW c \in Cancellers, NEW t \in Tasks, Cancel(c, t) PROVE NoIdlePermit'
  BY <1>10 DEF Cancel
<1>11. ASSUME NEW c \in Cancellers, CancelFuture(c) PROVE NoIdlePermit'
  BY <1>11 DEF CancelFuture
<1>12. CASE Rest
  BY <1>12 DEF Rest, vars
<1>13. CASE UNCHANGED vars
  BY <1>13 DEF vars
<1> QED
  BY <1>1, <1>2, <1>3, <1>4, <1>5, <1>6, <1>7, <1>8, <1>9, <1>10, <1>11, <1>12, <1>13
     DEF Next, TaskStep

\* acquire queues a fresh future, and nobody completes or cancels one before it is queued.
LEMMA ApartStep ==
  TypeOK /\ FuturesApart /\ OfferSound /\ CancelSound /\ [Next]_vars => FuturesApart'
<1> SUFFICES ASSUME TypeOK, FuturesApart, OfferSound, CancelSound, [Next]_vars PROVE FuturesApart'
  OBVIOUS
<1> USE SizeAssumption DEF TypeOK, FuturesApart, OfferSound, CancelSound, Waiting, Awaited,
                           Pending, Futs, Goto, semVars, taskVars
<1>1. ASSUME NEW t \in Tasks, Acquire(t) PROVE FuturesApart'
  BY <1>1 DEF Acquire
<1>2. ASSUME NEW t \in Tasks, Arm(t) PROVE FuturesApart'
  BY <1>2 DEF Arm
<1>3. ASSUME NEW t \in Tasks, Resume(t) PROVE FuturesApart'
  <2>1. UNCHANGED <<fut, begun, fstate>> /\ \A u \in Tasks : Waiting(u)' => Waiting(u)
    BY <1>3 DEF Resume
  <2> QED
    BY <2>1
<1>4. ASSUME NEW t \in Tasks, Except(t) PROVE FuturesApart'
  <2>1. UNCHANGED <<fut, begun, fstate>> /\ \A u \in Tasks : Waiting(u)' => Waiting(u)
    BY <1>4 DEF Except
  <2> QED
    BY <2>1
<1>5. ASSUME NEW t \in Tasks, OtherAwait(t) PROVE FuturesApart'
  BY <1>5 DEF OtherAwait
<1>6. ASSUME NEW t \in Tasks, Release(t) PROVE FuturesApart'
  BY <1>6 DEF Release
<1>7. ASSUME NEW t \in Tasks, ReleasePop(t) PROVE FuturesApart'
  BY <1>7 DEF ReleasePop
<1>8. ASSUME NEW t \in Tasks, ReleaseSet(t) PROVE FuturesApart'
  BY <1>8 DEF ReleaseSet
<1>9. ASSUME NEW t \in Tasks, ReleaseEnd(t) PROVE FuturesApart'
  BY <1>9 DEF ReleaseEnd
<1>10. ASSUME NEW c \in Cancellers, NEW t \in Tasks, Cancel(c, t) PROVE FuturesApart'
  BY <1>10 DEF Cancel
<1>11. ASSUME NEW c \in Cancellers, CancelFuture(c) PROVE FuturesApart'
  BY <1>11 DEF CancelFuture
<1>12. CASE Rest
  BY <1>12 DEF Rest, vars
<1>13. CASE UNCHANGED vars
  BY <1>13 DEF vars
<1> QED
  BY <1>1, <1>2, <1>3, <1>4, <1>5, <1>6, <1>7, <1>8, <1>9, <1>10, <1>11, <1>12, <1>13
     DEF Next, TaskStep

\* A canceller that has a future in its hand took it from a parked task.
LEMMA CancelStep == TypeOK /\ FuturesApart /\ CancelSound /\ [Next]_vars => CancelSound'
<1> SUFFICES ASSUME TypeOK, FuturesApart, CancelSound, [Next]_vars PROVE CancelSound'
  OBVIOUS
<1> USE SizeAssumption DEF TypeOK, FuturesApart, CancelSound, Waiting, Pending, Futs, Canceller,
                           Goto, semVars, taskVars
<1>1. ASSUME NEW t \in Tasks, Acquire(t) PROVE CancelSound'
  BY <1>1 DEF Acquire
<1>2. ASSUME NEW t \in Tasks, Arm(t) PROVE CancelSound'
  BY <1>2 DEF Arm
<1>3. ASSUME NEW t \in Tasks, Resume(t) PROVE CancelSound'
  BY <1>3 DEF Resume
<1>4. ASSUME NEW t \in Tasks, Except(t) PROVE CancelSound'
  BY <1>4 DEF Except
<1>5. ASSUME NEW t \in Tasks, OtherAwait(t) PROVE CancelSound'
  BY <1>5 DEF OtherAwait
<1>6. ASSUME NEW t \in Tasks, Release(t) PROVE CancelSound'
  BY <1>6 DEF Release
<1>7. ASSUME NEW t \in Tasks, ReleasePop(t) PROVE CancelSound'
  BY <1>7 DEF ReleasePop
<1>8. ASSUME NEW t \in Tasks, ReleaseSet(t) PROVE CancelSound'
  BY <1>8 DEF ReleaseSet
<1>9. ASSUME NEW t \in Tasks, ReleaseEnd(t) PROVE CancelSound'
  BY <1>9 DEF ReleaseEnd
<1>10. ASSUME NEW c \in Cancellers, NEW t \in Tasks, Cancel(c, t) PROVE CancelSound'
  <2>1. CASE pc[t] = "parked"
    <3>1. UNCHANGED <<pc, fut, begun, fstate>> /\ ca' = [ca EXCEPT ![c] = Canceller("cancel", t, fut[t])]
      BY <1>10, <2>1 DEF Cancel
    <3>2. ca'[c].pc = "cancel" /\ ca'[c].t = t /\ ca'[c].f = fut[t]
      BY <3>1
    <3>3. \A d \in Cancellers : d # c => ca'[d] = ca[d]
      BY <3>1
    <3>4. fut[t] \in Futs /\ fut[t] <= begun /\ \A u \in Tasks : pc[u] = "await" => fut[u] # fut[t]
      BY <2>1
    <3> QED
      BY <3>1, <3>2, <3>3, <3>4
  <2>2. CASE pc[t] # "parked"
    <3>1. UNCHANGED <<pc, fut, begun, fstate>> /\ ca' = [ca EXCEPT ![c] = Canceller("end", None, None)]
      BY <1>10, <2>2 DEF Cancel
    <3>2. ca'[c].pc = "end" /\ \A d \in Cancellers : d # c => ca'[d] = ca[d]
      BY <3>1
    <3> QED
      BY <3>1, <3>2
  <2> QED
    BY <2>1, <2>2
<1>11. ASSUME NEW c \in Cancellers, CancelFuture(c) PROVE CancelSound'
  BY <1>11 DEF CancelFuture
<1>12. CASE Rest
  BY <1>12 DEF Rest, vars
<1>13. CASE UNCHANGED vars
  BY <1>13 DEF vars
<1> QED
  BY <1>1, <1>2, <1>3, <1>4, <1>5, <1>6, <1>7, <1>8, <1>9, <1>10, <1>11, <1>12, <1>13
     DEF Next, TaskStep

\* The task comes out of the handler of its CancelledError.
Leaves(t) == pc[t] = "except" /\ pc'[t] # "except"

\* A future without a permit keeps the task that waits for it until that task leaves.
LEMMA AwaitedKept ==
  ASSUME TypeOK, FuturesApart, CancelSound, [Next]_vars,
         NEW f \in Futs, Awaited(f), fstate[f] # "FINISHED"
  PROVE  Awaited(f)' \/ \E t \in Tasks : Leaves(t) /\ fut[t] = f
<1>0. PICK u \in Tasks : Waiting(u) /\ fut[u] = f
  BY DEF Awaited
<1> SUFFICES (Waiting(u) /\ fut[u] = f)' \/ Leaves(u)
  BY <1>0 DEF Awaited
<1> USE <1>0 DEF TypeOK, Leaves, CancelSound, Waiting, Pending, Goto, semVars, taskVars
<1>1. CASE \E t \in Tasks : Acquire(t)
  BY <1>1 DEF Acquire
<1>2. CASE \E t \in Tasks : Arm(t)
  BY <1>2 DEF Arm
<1>3. CASE \E t \in Tasks : Resume(t)
  BY <1>3 DEF Resume
<1>4. CASE \E t \in Tasks : Except(t)
  BY <1>4 DEF Except
<1>5. CASE \E t \in Tasks : OtherAwait(t)
  BY <1>5 DEF OtherAwait
<1>6. CASE \E t \in Tasks : Release(t)
  BY <1>6 DEF Release
<1>7. CASE \E t \in Tasks : ReleasePop(t)
  BY <1>7 DEF ReleasePop
<1>8. CASE \E t \in Tasks : ReleaseSet(t)
  BY <1>8 DEF ReleaseSet
<1>9. CASE \E t \in Tasks : ReleaseEnd(t)
  BY <1>9 DEF ReleaseEnd
<1>10. CASE \E c \in Cancellers, t \in Tasks : Cancel(c, t)
  BY <1>10 DEF Cancel
<1>11. CASE \E c \in Cancellers : CancelFuture(c)
  BY <1>11 DEF CancelFuture
<1>12. CASE Rest \/ UNCHANGED vars
  BY <1>12 DEF Rest, vars
<1> QED
  BY <1>1, <1>2, <1>3, <1>4, <1>5, <1>6, <1>7, <1>8, <1>9, <1>10, <1>11, <1>12 DEF Next, TaskStep

\* The queue holds the futures of distinct tasks that wait, none of them completed.
LEMMA QueueStep ==
  TypeOK /\ FuturesApart /\ QueueSound /\ OfferSound /\ CancelSound /\ [Next]_vars => QueueSound'
<1> SUFFICES ASSUME TypeOK, FuturesApart, QueueSound, OfferSound, CancelSound, [Next]_vars
             PROVE  QueueSound'
  OBVIOUS
<1>0. waiters \in Seq(Futs) /\ Len(waiters) \in Nat /\ DOMAIN waiters = 1 .. Len(waiters)
  BY DEF TypeOK
<1>a. pc \in [Tasks -> TaskPCs] /\ fstate \in [Futs -> {"PENDING", "FINISHED", "CANCELLED"}]
  BY DEF TypeOK
<1>b. ASSUME NEW f \in Futs, Queued(f), \A t \in Tasks : Leaves(t) => fut[t] # f
      PROVE  Awaited(f)'
  BY <1>b, AwaitedKept DEF QueueSound
\* The steps that leave the queue alone, and complete no future that is queued.
<1>c. ASSUME UNCHANGED waiters,
             \A f \in Futs : Queued(f) => fstate'[f] # "FINISHED",
             \A t \in Tasks : Leaves(t) => ~Queued(fut[t])
      PROVE  QueueSound'
  <2>1. \A f \in Futs : Queued(f)' = Queued(f)
    BY <1>c DEF Queued
  <2>2. \A f \in Futs : Queued(f) => Awaited(f)'
    BY <1>b, <1>c
  <2> QED
    BY <1>c, <2>1, <2>2 DEF QueueSound
<1>d. ASSUME UNCHANGED waiters, UNCHANGED fstate, \A t \in Tasks : ~Leaves(t) PROVE QueueSound'
  BY <1>c, <1>d DEF QueueSound
<1>1. ASSUME NEW t \in Tasks, Acquire(t) PROVE QueueSound'
  <2>0. \A u \in Tasks : ~Leaves(u)
    BY <1>a, <1>1 DEF Acquire, Goto, Leaves
  <2>1. CASE UNCHANGED waiters
    BY <1>1, <1>d, <2>0, <2>1 DEF Acquire
  <2>2. CASE waiters' = Append(waiters, begun + 1) /\ Goto(t, "await")
    <3>1. begun + 1 \in Futs /\ begun \in Nat
      BY <1>1, SizeAssumption DEF Acquire, TypeOK, Futs
    <3>2. ~Queued(begun + 1)
      BY <3>1 DEF QueueSound, Awaited, FuturesApart, Futs
    <3>3. /\ waiters'[Len(waiters) + 1] = begun + 1
          /\ \A i \in DOMAIN waiters : waiters'[i] = waiters[i]
          /\ \A i \in DOMAIN waiters' : i \in DOMAIN waiters \/ i = Len(waiters) + 1
      BY <1>0, <2>2, <3>1
    <3>4. fstate' = fstate /\ fstate[begun + 1] = "PENDING"
      BY <1>1, <3>1 DEF Acquire, FuturesApart, Pending, Futs
    <3>5. \A f \in Futs : f = begun + 1 => Awaited(f)'
      BY <1>1, <2>2 DEF Acquire, Awaited, Waiting, Goto, TypeOK
    <3>6. \A f \in Futs : Queued(f) => Awaited(f)'
      BY <1>b, <2>0
    <3>7. \A f \in Futs : Queued(f)' => Queued(f) \/ f = begun + 1
      BY <3>3 DEF Queued
    <3>8. \A i, j \in DOMAIN waiters' : waiters'[i] = waiters'[j] => i = j
      BY <3>2, <3>3 DEF QueueSound, Queued
    <3> QED
      BY <3>4, <3>5, <3>6, <3>7, <3>8 DEF QueueSound
  <2> QED
    BY <1>1, <2>1, <2>2 DEF Acquire
<1>2. ASSUME NEW t \in Tasks, Arm(t) PROVE QueueSound'
  BY <1>a, <1>d, <1>2 DEF Arm, Leaves, Goto, semVars
<1>3. ASSUME NEW t \in Tasks, Resume(t) PROVE QueueSound'
  BY <1>a, <1>d, <1>3 DEF Resume, Leaves, Goto, semVars
<1>4. ASSUME NEW t \in Tasks, Except(t) PROVE QueueSound'
  <2>0. fstate' = fstate /\ \A u \in Tasks : Leaves(u) => u = t
    BY <1>a, <1>4 DEF Except, Leaves, Goto
  <2>1. CASE ~Queued(fut[t]) /\ UNCHANGED waiters
    BY <1>c, <2>0, <2>1 DEF QueueSound
  <2>2. ASSUME NEW i \in DOMAIN waiters, waiters[i] = fut[t], waiters' = Without(waiters, i)
        PROVE  QueueSound'
    <3>1. /\ DOMAIN waiters' = 1 .. (Len(waiters) - 1)
          /\ \A j \in DOMAIN waiters' : waiters'[j] = IF j < i THEN waiters[j] ELSE waiters[j + 1]
      BY <1>0, <2>2 DEF Without
    <3> DEFINE Place(j) == IF j < i THEN j ELSE j + 1
    <3>2. /\ \A j \in DOMAIN waiters' :
               Place(j) \in DOMAIN waiters /\ Place(j) # i /\ waiters'[j] = waiters[Place(j)]
          /\ \A j, k \in DOMAIN waiters' : Place(j) = Place(k) => j = k
      BY <1>0, <3>1
    <3> HIDE DEF Place
    <3>3. \A f \in Futs : Queued(f)' => Queued(f) /\ f # fut[t]
      BY <2>2, <3>2 DEF QueueSound, Queued
    <3>4. \A f \in Futs : Queued(f)' => Awaited(f)'
      BY <1>b, <2>0, <3>3
    <3>5. \A j, k \in DOMAIN waiters' : waiters'[j] = waiters'[k] => j = k
      BY <3>2 DEF QueueSound
    <3> QED
      BY <2>0, <3>3, <3>4, <3>5 DEF QueueSound
  <2> QED
    BY <1>4, <2>1, <2>2 DEF Except
<1>5. ASSUME NEW t \in Tasks, OtherAwait(t) PROVE QueueSound'
  BY <1>d, <1>5 DEF OtherAwait, Leaves, semVars, taskVars
<1>6. ASSUME NEW t \in Tasks, Release(t) PROVE QueueSound'
  BY <1>a, <1>d, <1>6 DEF Release, Leaves, Goto
<1>7. ASSUME NEW t \in Tasks, ReleasePop(t) PROVE QueueSound'
  <2>0. waiters # <<>> /\ waiters' = Tail(waiters) /\ fstate' = fstate /\ \A u \in Tasks : ~Leaves(u)
    BY <1>a, <1>7 DEF ReleasePop, Leaves, Goto
  <2>1. \A j \in DOMAIN waiters' : j + 1 \in DOMAIN waiters /\ waiters'[j] = waiters[j + 1] /\ j \in Nat
    BY <1>0, <2>0
  <2>2. \A f \in Futs : Queued(f)' => Queued(f)
    BY <2>1 DEF Queued
  <2>3. \A f \in Futs : Queued(f) => Awaited(f)'
    BY <1>b, <2>0
  <2>4. \A j, k \in DOMAIN waiters' : waiters'[j] = waiters'[k] => j = k
    BY <2>1 DEF QueueSound
  <2> QED
    BY <2>0, <2>2, <2>3, <2>4 DEF QueueSound
<1>8. ASSUME NEW t \in Tasks, ReleaseSet(t) PROVE QueueSound'
  <2>1. UNCHANGED waiters /\ \A u \in Tasks : ~Leaves(u)
    BY <1>a, <1>8 DEF ReleaseSet, Leaves, Goto
  <2>2. \A f \in Futs : f # offered[t] => fstate'[f] = fstate[f]
    BY <1>a, <1>8 DEF ReleaseSet
  <2>3. ~Queued(offered[t])
    BY <1>8 DEF ReleaseSet, OfferSound
  <2> QED
    BY <1>c, <2>1, <2>2, <2>3 DEF QueueSound
<1>9. ASSUME NEW t \in Tasks, ReleaseEnd(t) PROVE QueueSound'
  BY <1>a, <1>d, <1>9 DEF ReleaseEnd, Leaves, Goto
<1>10. ASSUME NEW c \in Cancellers, NEW t \in Tasks, Cancel(c, t) PROVE QueueSound'
  BY <1>d, <1>10 DEF Cancel, Leaves, semVars, taskVars
<1>11. ASSUME NEW c \in Cancellers, CancelFuture(c) PROVE QueueSound'
  <2>1. UNCHANGED waiters /\ \A u \in Tasks : ~Leaves(u)
    BY <1>11 DEF CancelFuture, Leaves, semVars, taskVars
  <2>2. \A f \in Futs : fstate[f] # "FINISHED" => fstate'[f] # "FINISHED"
    BY <1>a, <1>11 DEF CancelFuture
  <2> QED
    BY <1>c, <2>1, <2>2 DEF QueueSound
<1>12. CASE Rest \/ UNCHANGED vars
  BY <1>d, <1>12 DEF Rest, vars, Leaves, semVars, taskVars
<1> QED
  BY <1>1, <1>2, <1>3, <1>4, <1>5, <1>6, <1>7, <1>8, <1>9, <1>10, <1>11, <1>12 DEF Next, TaskStep

\* The popped future stays out of the queue, and without a permit, until set_result.
LEMMA OfferStep ==
  TypeOK /\ MutexHeld /\ FuturesApart /\ QueueSound /\ OfferSound /\ CancelSound /\ [Next]_vars
    => OfferSound'
<1> SUFFICES ASSUME TypeOK, MutexHeld, FuturesApart, QueueSound, OfferSound, CancelSound, [Next]_vars
             PROVE  OfferSound'
  OBVIOUS
<1>0. /\ pc \in [Tasks -> TaskPCs] /\ offered \in [Tasks -> Futs \cup {None}]
      /\ fstate \in [Futs -> {"PENDING", "FINISHED", "CANCELLED"}]
      /\ waiters \in Seq(Futs)
  BY DEF TypeOK
\* A task that is about to complete a future keeps everybody else out of the queue.
<1>1. ASSUME NEW t \in Tasks, pc[t] = "set", pc'[t] = "set"
      PROVE  /\ UNCHANGED <<waiters, offered>>
             /\ \A f \in Futs : fstate[f] # "FINISHED" => fstate'[f] # "FINISHED"
             /\ \A u \in Tasks : ~Leaves(u)
  <2> USE <1>0, <1>1 DEF Goto, Leaves, semVars, taskVars
  <2>1. mu = t /\ mu # None /\ \A u \in Tasks : pc[u] \in {"release", "set"} => u = t
    BY TasksAssumption DEF MutexHeld
  <2>2. ASSUME NEW u \in Tasks PROVE ~(Acquire(u) \/ Except(u) \/ Release(u))
    BY <2>1 DEF Acquire, Except, Release
  <2>3. ASSUME NEW u \in Tasks PROVE ~(ReleasePop(u) \/ ReleaseSet(u) \/ ReleaseEnd(u))
    BY <2>1 DEF ReleasePop, ReleaseSet, ReleaseEnd
  <2>4. CASE \E u \in Tasks : Arm(u) \/ Resume(u) \/ OtherAwait(u)
    BY <2>4 DEF Arm, Resume, OtherAwait
  <2>5. CASE \E c \in Cancellers : CancelFuture(c) \/ \E u \in Tasks : Cancel(c, u)
    BY <2>5 DEF CancelFuture, Cancel
  <2>6. CASE Rest \/ UNCHANGED vars
    BY <2>6 DEF Rest, vars
  <2> QED
    BY <2>2, <2>3, <2>4, <2>5, <2>6 DEF Next, TaskStep
<1>2. ASSUME NEW t \in Tasks, pc[t] # "set", pc'[t] = "set"
      PROVE  ReleasePop(t) /\ Pending(Head(waiters))
  <2> USE <1>0, <1>2 DEF Goto, semVars, taskVars
  <2>1. ASSUME NEW u \in Tasks PROVE ~(Acquire(u) \/ Except(u) \/ Release(u))
    BY DEF Acquire, Except, Release
  <2>2. ASSUME NEW u \in Tasks
        PROVE  ~(ReleaseSet(u) \/ ReleaseEnd(u) \/ Arm(u) \/ Resume(u) \/ OtherAwait(u))
    BY DEF ReleaseSet, ReleaseEnd, Arm, Resume, OtherAwait
  <2>3. ~(\E c \in Cancellers : CancelFuture(c) \/ \E u \in Tasks : Cancel(c, u))
    BY DEF CancelFuture, Cancel
  <2>4. ~(Rest \/ UNCHANGED vars)
    BY DEF Rest, vars
  <2>5. ASSUME NEW u \in Tasks, ReleasePop(u) PROVE u = t /\ Pending(Head(waiters))
    BY <2>5 DEF ReleasePop
  <2> QED
    BY <2>1, <2>2, <2>3, <2>4, <2>5 DEF Next, TaskStep
<1>3. ASSUME NEW t \in Tasks, pc'[t] = "set", NEW f \in Futs, offered'[t] = f
      PROVE  fstate'[f] # "FINISHED" /\ Awaited(f)' /\ ~Queued(f)'
  <2>1. CASE pc[t] = "set"
    <3>1. offered[t] = f /\ fstate'[f] # "FINISHED" /\ ~Queued(f)'
      BY <1>1, <1>3, <2>1 DEF OfferSound, Queued
    <3> QED
      BY <1>1, <1>3, <2>1, <3>1, AwaitedKept DEF OfferSound
  <2>2. CASE pc[t] # "set"
    <3>1. ReleasePop(t) /\ Pending(Head(waiters))
      BY <1>2, <1>3, <2>2
    <3>2. waiters # <<>> /\ waiters' = Tail(waiters) /\ fstate' = fstate /\ f = Head(waiters)
      BY <1>0, <1>3, <3>1 DEF ReleasePop
    <3>3. \A u \in Tasks : ~Leaves(u)
      BY <1>0, <3>1 DEF ReleasePop, Leaves, Goto
    <3>4. 1 \in DOMAIN waiters /\ waiters[1] = f /\ Queued(f)
      BY <1>0, <3>2 DEF Queued
    <3>5. \A j \in DOMAIN waiters' : j + 1 \in DOMAIN waiters /\ waiters'[j] = waiters[j + 1] /\ j + 1 # 1
      BY <1>0, <3>2
    <3>6. ~Queued(f)'
      BY <3>4, <3>5 DEF Queued, QueueSound
    <3> QED
      BY <3>2, <3>3, <3>4, <3>6, AwaitedKept DEF QueueSound
  <2> QED
    BY <2>1, <2>2
<1>4. ASSUME NEW t \in Tasks, pc'[t] = "set" PROVE offered'[t] \in Futs
  <2>1. CASE pc[t] = "set"
    BY <1>1, <1>4, <2>1 DEF OfferSound
  <2>2. CASE pc[t] # "set"
    BY <1>0, <1>2, <1>4, <2>2, QueueFacts DEF ReleasePop
  <2> QED
    BY <2>1, <2>2
<1> QED
  BY <1>3, <1>4 DEF OfferSound

LEMMA InvInit == Init => IInv
<1> SUFFICES ASSUME Init PROVE IInv
  OBVIOUS
<1>1. \A f \in Futs : ~Queued(f)
  BY DEF Init, Queued
<1>2. MutexHeld /\ FuturesApart /\ QueueSound /\ OfferSound
  BY <1>1 DEF Init, MutexHeld, FuturesApart, QueueSound, OfferSound, Waiting, Pending
<1>3. CancelSound /\ NoIdlePermit
  BY DEF Init, CancelSound, Canceller, NoIdlePermit
<1> QED
  BY <1>2, <1>3, TypeInit DEF IInv

LEMMA InvStep == IInv /\ [Next]_vars => IInv'
  BY TypeStep, MutexStep, ApartStep, QueueStep, OfferStep, CancelStep, IdleStep DEF IInv

LEMMA Invariance == Spec => []IInv
  BY InvInit, InvStep, PTL DEF Spec

\* A free permit never lies unused while somebody queues: release stores a permit only
\* with the queue empty, and acquire queues only where none is free.
THEOREM NoPermitIdle == Spec => []NoIdlePermit
<1>1. IInv => NoIdlePermit
  BY DEF IInv
<1> QED
  BY <1>1, Invariance, PTL

-----------------------------------------------------------------------------
\* Counting the permits.

LEMMA OneMore ==
  ASSUME NEW S, IsFiniteSet(S), NEW x, x \notin S
  PROVE  Cardinality(S \cup {x}) = Cardinality(S) + 1
  BY FS_AddElement

LEMMA OneLess ==
  ASSUME NEW S, IsFiniteSet(S), NEW x, x \in S
  PROVE  Cardinality(S \ {x}) = Cardinality(S) - 1
  BY FS_RemoveElement

LEMMA OwnersAreFinite ==
  /\ IsFiniteSet(Holding) /\ Cardinality(Holding) \in Nat
  /\ IsFiniteSet(Handed) /\ Cardinality(Handed) \in Nat
<1>1. Holding \subseteq Tasks /\ Handed \subseteq Tasks
  BY DEF Holding, Handed
<1> QED
  BY <1>1, FS_Subset, FS_CardinalityType, TasksAssumption

\* What a step may do with the permits: nothing, take a free one, free one, lose one,
\* or pass one from a task that has been handed it to the same task holding it, or from
\* a task that holds it to one that has been handed it.
LEMMA CountStep ==
  ASSUME IInv, PermitsAccounted,
         \/ UNCHANGED <<value, Holding, Handed, errors>>
         \/ /\ value > 0 /\ value' = value - 1 /\ UNCHANGED <<Handed, errors>>
            /\ \E t \in Tasks \ Holding : Holding' = Holding \cup {t}
         \/ /\ value' = value + 1 /\ UNCHANGED <<Handed, errors>>
            /\ \E t \in Holding : Holding' = Holding \ {t}
         \/ /\ errors' = errors + 1 /\ UNCHANGED <<Handed, value>>
            /\ \E t \in Holding : Holding' = Holding \ {t}
         \/ /\ UNCHANGED <<value, errors>>
            /\ \E t \in Handed \ Holding : Holding' = Holding \cup {t} /\ Handed' = Handed \ {t}
         \/ /\ UNCHANGED <<value, errors>>
            /\ \E t \in Holding, u \in Tasks \ Handed :
                 Holding' = Holding \ {t} /\ Handed' = Handed \cup {u}
  PROVE  PermitsAccounted'
<1>1. /\ IsFiniteSet(Holding) /\ Cardinality(Holding) \in Nat
      /\ IsFiniteSet(Handed) /\ Cardinality(Handed) \in Nat
      /\ value \in Nat /\ errors \in Nat /\ Permits \in Nat
  BY OwnersAreFinite, SizeAssumption DEF IInv, TypeOK
<1>2. \A t : t \notin Holding => Cardinality(Holding \cup {t}) = Cardinality(Holding) + 1
  BY <1>1, OneMore
<1>3. \A t : t \notin Handed => Cardinality(Handed \cup {t}) = Cardinality(Handed) + 1
  BY <1>1, OneMore
<1>4. \A t \in Holding : Cardinality(Holding \ {t}) = Cardinality(Holding) - 1
  BY <1>1, OneLess
<1>5. \A t \in Handed : Cardinality(Handed \ {t}) = Cardinality(Handed) - 1
  BY <1>1, OneLess
<1> QED
  BY <1>1, <1>2, <1>3, <1>4, <1>5, SMTT(30) DEF PermitsAccounted

LEMMA PermitsStep == IInv /\ PermitsAccounted /\ [Next]_vars => PermitsAccounted'
<1> SUFFICES ASSUME IInv, PermitsAccounted, [Next]_vars PROVE PermitsAccounted'
  OBVIOUS
<1>0. /\ pc \in [Tasks -> TaskPCs] /\ fut \in [Tasks -> Futs \cup {None}]
      /\ fstate \in [Futs -> {"PENDING", "FINISHED", "CANCELLED"}]
  BY DEF IInv, TypeOK
<1>a. \A t \in Tasks : Waiting(t) => fut[t] \in Futs
  BY DEF IInv, FuturesApart
<1> USE <1>0 DEF Goto, semVars, taskVars, Holding, Handed
<1>1. ASSUME NEW t \in Tasks, Acquire(t) PROVE PermitsAccounted'
  <2>1. begun + 1 \in Futs /\ fstate[begun + 1] = "PENDING"
    BY <1>1, SizeAssumption DEF Acquire, IInv, TypeOK, FuturesApart, Pending, Futs
  <2>2. UNCHANGED Handed
    BY <1>1, <2>1 DEF Acquire
  <2>3. CASE value > 0 /\ value' = value - 1 /\ Goto(t, "hold")
    <3>1. t \in Tasks \ Holding /\ Holding' = Holding \cup {t}
      BY <1>1, <2>3 DEF Acquire
    <3>2. UNCHANGED errors
      BY <1>1 DEF Acquire
    <3> QED
      BY ONLY <2>2, <2>3, <3>1, <3>2, CountStep, IInv, PermitsAccounted
  <2>4. CASE value' = value /\ Goto(t, "await")
    <3>1. UNCHANGED <<Holding, errors>>
      BY <1>1, <2>4 DEF Acquire
    <3> QED
      BY ONLY <2>2, <2>4, <3>1, CountStep, IInv, PermitsAccounted
  <2> QED
    BY <1>1, <2>3, <2>4 DEF Acquire
\* A task that has been handed its permit takes it.
<1>2. ASSUME NEW t \in Tasks, Waiting(t), fstate[fut[t]] = "FINISHED", NEW l \in {"hold", "giveback"},
             Goto(t, l), UNCHANGED <<value, fut, fstate, errors>>
      PROVE  PermitsAccounted'
  <2>1. t \in Handed \ Holding /\ Holding' = Holding \cup {t} /\ Handed' = Handed \ {t}
    BY <1>2 DEF Waiting
  <2>2. UNCHANGED <<value, errors>>
    BY <1>2
  <2> QED
    BY ONLY <2>1, <2>2, CountStep, IInv, PermitsAccounted
\* A task without a permit goes on to wait, or leaves.
<1>3. ASSUME NEW t \in Tasks, Waiting(t), NEW l \in {"parked", "except", "out"},
             l = "out" => fstate[fut[t]] # "FINISHED",
             Goto(t, l), UNCHANGED <<value, fut, fstate, errors>>
      PROVE  PermitsAccounted'
  <2>1. UNCHANGED <<value, Holding, Handed, errors>>
    BY <1>3 DEF Waiting
  <2> QED
    BY ONLY <2>1, CountStep, IInv, PermitsAccounted
<1>4. ASSUME NEW t \in Tasks, Arm(t) PROVE PermitsAccounted'
  <2>1. Waiting(t) /\ fut[t] \in Futs /\ fstate[fut[t]] \in {"PENDING", "FINISHED"}
    BY <1>a, <1>4 DEF Arm, Waiting, IInv, CancelSound
  <2> QED
    BY <1>2, <1>3, <1>4, <2>1 DEF Arm, Pending
<1>5. ASSUME NEW t \in Tasks, Resume(t) PROVE PermitsAccounted'
  <2>1. Waiting(t)
    BY <1>5 DEF Resume, Waiting
  <2> QED
    BY <1>2, <1>3, <1>5, <2>1 DEF Resume
<1>6. ASSUME NEW t \in Tasks, Except(t) PROVE PermitsAccounted'
  <2>1. Waiting(t) /\ fut[t] \in Futs
    BY <1>a, <1>6 DEF Except, Waiting
  <2>2. Queued(fut[t]) => fstate[fut[t]] # "FINISHED"
    BY <2>1 DEF IInv, QueueSound
  <2>3. \/ Goto(t, "out") /\ fstate[fut[t]] # "FINISHED"
        \/ Goto(t, "giveback") /\ fstate[fut[t]] = "FINISHED"
    BY <1>6, <2>2 DEF Except, Queued
  <2>4. UNCHANGED <<value, fut, fstate, errors>>
    BY <1>6 DEF Except
  <2> QED
    BY <1>2, <1>3, <2>1, <2>3, <2>4
\* Steps that move no permit.
<1>7. ASSUME UNCHANGED <<value, Holding, Handed, errors>> PROVE PermitsAccounted'
  BY ONLY <1>7, CountStep, IInv, PermitsAccounted
<1>8. ASSUME NEW t \in Tasks, Release(t) \/ ReleasePop(t) PROVE PermitsAccounted'
  BY <1>7, <1>8 DEF Release, ReleasePop
<1>9. ASSUME NEW t \in Tasks, OtherAwait(t) PROVE PermitsAccounted'
  BY <1>7, <1>9 DEF OtherAwait
<1>10. ASSUME NEW c \in Cancellers, NEW t \in Tasks, Cancel(c, t) PROVE PermitsAccounted'
  BY <1>7, <1>10 DEF Cancel
<1>11. ASSUME NEW c \in Cancellers, CancelFuture(c) PROVE PermitsAccounted'
  <2>1. \A f \in Futs : (fstate'[f] = "FINISHED") = (fstate[f] = "FINISHED")
    BY <1>11 DEF CancelFuture, Pending
  <2>2. UNCHANGED <<value, pc, fut, errors>>
    BY <1>11 DEF CancelFuture
  <2> QED
    BY <1>7, <1>a, <2>1, <2>2 DEF Waiting
<1>12. ASSUME NEW t \in Tasks, ReleaseEnd(t) PROVE PermitsAccounted'
  <2>1. t \in Holding /\ Holding' = Holding \ {t} /\ value' = value + 1 /\ UNCHANGED <<Handed, errors>>
    BY <1>12 DEF ReleaseEnd
  <2> QED
    BY ONLY <2>1, CountStep, IInv, PermitsAccounted
<1>13. ASSUME NEW t \in Tasks, ReleaseSet(t) PROVE PermitsAccounted'
  <2>1. t \in Holding /\ Holding' = Holding \ {t} /\ UNCHANGED <<value, fut>>
    BY <1>13 DEF ReleaseSet
  <2>2. CASE ~Pending(offered[t])
    <3>1. errors' = errors + 1 /\ UNCHANGED Handed
      BY <1>13, <2>2 DEF ReleaseSet
    <3> QED
      BY ONLY <2>1, <3>1, CountStep, IInv, PermitsAccounted
  <2>3. CASE Pending(offered[t])
    <3>1. offered[t] \in Futs /\ Awaited(offered[t])
      BY <1>13 DEF ReleaseSet, IInv, OfferSound
    <3>2. PICK u \in Tasks : Waiting(u) /\ fut[u] = offered[t]
      BY <3>1 DEF Awaited
    <3>3. \A v \in Tasks : Waiting(v) /\ fut[v] = offered[t] => v = u
      BY <3>2 DEF IInv, FuturesApart
    <3>4. fstate' = [fstate EXCEPT ![offered[t]] = "FINISHED"] /\ UNCHANGED errors
      BY <1>13, <2>3 DEF ReleaseSet
    <3>5. u \in Tasks \ Handed
      BY <2>3, <3>2 DEF Pending
    <3>6. \A v \in Tasks : Waiting(v)' = Waiting(v)
      BY <1>13 DEF ReleaseSet, Waiting
    <3>7. /\ Handed = {v \in Tasks : Waiting(v) /\ fstate[fut[v]] = "FINISHED"}
          /\ Handed' = {v \in Tasks : Waiting(v) /\ fstate'[fut[v]] = "FINISHED"}
      BY <2>1, <3>6 DEF Waiting
    <3>8. \A v \in Tasks : Waiting(v) => fstate'[fut[v]] = IF v = u THEN "FINISHED" ELSE fstate[fut[v]]
      BY <1>a, <3>1, <3>2, <3>3, <3>4
    <3>9. Handed' = Handed \cup {u}
      BY ONLY <3>2, <3>7, <3>8
    <3> QED
      BY ONLY <2>1, <3>4, <3>5, <3>9, CountStep, IInv, PermitsAccounted
  <2> QED
    BY <2>2, <2>3
<1>14. CASE Rest \/ UNCHANGED vars
  BY <1>7, <1>14 DEF Rest, vars
<1> QED
  BY <1>1, <1>4, <1>5, <1>6, <1>8, <1>9, <1>10, <1>11, <1>12, <1>13, <1>14 DEF Next, TaskStep

\* Permits are never forged, and only a release that raises InvalidStateError loses one,
\* however acquires, releases and cancels of any number of tasks interleave.
THEOREM PermitsAreAccounted == Spec => []PermitsAccounted
<1>1. ASSUME Init PROVE PermitsAccounted
  <2>1. Holding = {} /\ Handed = {}
    BY <1>1 DEF Init, Holding, Handed
  <2>2. Cardinality(Holding) = 0 /\ Cardinality(Handed) = 0
    BY <2>1, FS_EmptySet
  <2>3. value = Permits /\ errors = 0
    BY <1>1 DEF Init
  <2> QED
    BY <2>2, <2>3, SizeAssumption DEF PermitsAccounted
<1> QED
  BY <1>1, PermitsStep, Invariance, PTL DEF Spec

\* A task that owns a permit leaves fewer free than there are, so BoundedSemaphore.release
\* does not raise ValueError at it.
THEOREM BoundNeverRefuses == Spec => []BoundRespected
<1>1. ASSUME IInv, PermitsAccounted PROVE BoundRespected
  <2> SUFFICES ASSUME NEW t \in Tasks, pc[t] \in {"hold", "giveback", "release"}, OverReleased
               PROVE  FALSE
    BY DEF BoundRespected
  <2>1. IsFiniteSet(Holding) /\ IsFiniteSet(Handed)
    BY OwnersAreFinite
  <2>2. t \in Holding
    BY DEF Holding
  <2>3. Cardinality(Holding) \in Nat /\ Cardinality(Holding) # 0 /\ Cardinality(Handed) \in Nat
    BY <2>1, <2>2, FS_CardinalityType, FS_EmptySet
  <2>4. value \in Nat /\ errors \in Nat /\ value >= Permits
    BY <1>1 DEF IInv, TypeOK, OverReleased
  <2> QED
    BY <1>1, <2>3, <2>4, SizeAssumption DEF PermitsAccounted
<1> QED
  BY <1>1, Invariance, PermitsAreAccounted, PTL

-----------------------------------------------------------------------------
\* Combinators.

\* The callback of the child has run, or begun to.
Called(k) == cb[k] \in {"queued", "put", "chain", "end"}

-----------------------------------------------------------------------------
\* The inductive strengthening, part by part.

\* A child is created once, before any callback is registered and any timer is set.
Setup ==
  /\ caller.left \subseteq app.kids
  /\ \A k \in Kids : /\ cb[k] # "none" => k \in app.kids
                     /\ cb[k] = "put" => Kind({"as_completed"})
  /\ At("ensure") => \A k \in Kids : cb[k] = "none" /\ (k \in caller.left => st[k] = "unborn")
  /\ At("add") => \A k \in caller.left : cb[k] = "none"
  /\ At("ensure") \/ At("add") => timer.st = "off"

\* Only the callback of a child that has ended runs.
CalledEnded == \A k \in Kids : Called(k) => Ended(k)

\* gather counts the results it has, and has them of children whose callback has run.
GatherCount ==
  Kind({"gather"}) =>
    /\ shared.count = Cardinality(shared.results)
    /\ \A k \in shared.results :
         k \in app.kids /\ cb[k] = "end" /\ (app.mode # "return_exceptions" => st[k] = "ok")

\* wait counts the callbacks that have run.
WaitCount == Kind({"wait"}) => shared.count = Cardinality({k \in Kids : cb[k] = "end"})

\* The loop that follows the await: what it has done so far.
LeavingClean ==
  /\ caller.pc \in {"ensure", "add", "await", "consume"} => caller.exc = "none"
  /\ At("consume") => Kind({"as_completed"})
  /\ At("finally") => \A k \in app.kids \ caller.left :
       /\ Kind({"gather"}) /\ caller.exc = "cancel" => Ended(k) \/ k \in creq
       /\ Kind({"wait", "wait_for"}) => cb[k] # "added"

CombInv ==
  /\ CombTypeOK /\ Setup /\ CalledEnded /\ GatherCount /\ WaitCount /\ LeavingClean
  /\ NotEarly /\ CleanExit

-----------------------------------------------------------------------------
\* The steps, one by one.

\* What CombNext is made of, without its structure.
Steps(k) ==
  \/ EnsureFuture(k) \/ AddCallback(k) \/ Finally(k)
  \/ KidEnds(k) \/ ChildDone(k) \/ OnDone(k) \/ InnerDone(k) \/ OnCompletion(k) \/ PutItem(k)
  \/ Chain(k) \/ TimeoutDrop(k)

CallSteps ==
  \/ EnsureEnd \/ AddEnd \/ AwaitEnd \/ FinallyEnd \/ Consume
  \/ Timeout \/ TimeoutList \/ TimeoutClear \/ CancelCaller

LEMMA NextSteps ==
  ASSUME CombNext PROVE CallSteps \/ \E k \in Kids : Steps(k)
  BY DEF CombNext, CallerStep, CallbackStep, TimerStep, Steps, CallSteps

\* Typing.
LEMMA CombTypeInit == CombInit => CombTypeOK
  BY AppsAssumption DEF CombInit, CombTypeOK

LEMMA AppTyped ==
  ASSUME CombTypeOK
  PROVE  /\ app.kids \subseteq Kids /\ IsFiniteSet(app.kids) /\ Cardinality(app.kids) \in Nat
         /\ IsFiniteSet(todo) /\ Cardinality(todo) \in Nat
  <1>1. app.kids \subseteq Kids /\ todo \subseteq Kids /\ IsFiniteSet(Kids)
    BY AppsAssumption DEF CombTypeOK
  <1> QED
    BY <1>1, FS_Subset, FS_CardinalityType

LEMMA CombTypeStep == CombTypeOK /\ CalledEnded /\ [CombNext]_combVars => CombTypeOK'
<1> SUFFICES ASSUME CombTypeOK, CalledEnded, [CombNext]_combVars PROVE CombTypeOK'
  OBVIOUS
<1> USE AppTyped
<1>1. ASSUME NEW k \in Kids, Steps(k) PROVE CombTypeOK'
  <2>1. CASE EnsureFuture(k)
    BY <2>1 DEF EnsureFuture, CombTypeOK
  <2>2. CASE AddCallback(k)
    <3>1. caller' \in [pc : {"ensure", "add", "await", "consume", "finally", "end"}, due : BOOLEAN,
                       exc : {"none", "error", "cancel", "timeout", "runtime"},
                       left : SUBSET Kids, size : Nat, got : SUBSET Kids]
      <4>1. \/ caller' = [caller EXCEPT !.pc = "end", !.exc = "runtime"]
            \/ caller' = [caller EXCEPT !.left = @ \ {k}]
        BY <2>2 DEF AddCallback
      <4>2. CASE caller' = [caller EXCEPT !.pc = "end", !.exc = "runtime"]
        BY <4>2 DEF CombTypeOK
      <4>3. CASE caller' = [caller EXCEPT !.left = @ \ {k}]
        BY <4>3 DEF CombTypeOK
      <4> QED
        BY <4>1, <4>2, <4>3
    <3>2. cb' \in [Kids -> {"none", "added", "queued", "put", "chain", "removed", "end"}]
      BY <2>2 DEF AddCallback, Register, CombTypeOK
    <3> QED
      BY <2>2, <3>1, <3>2 DEF AddCallback, CombTypeOK
  <2>3. CASE Finally(k)
    BY <2>3 DEF Finally, CombTypeOK
  <2>4. CASE KidEnds(k)
    BY <2>4 DEF KidEnds, CombTypeOK
  <2>5. CASE ChildDone(k)
    <3>1. shared' \in [settled : BOOLEAN, count : Nat, results : SUBSET Kids]
      <4>1. \/ shared' = shared
            \/ shared' = [shared EXCEPT !.settled = TRUE]
            \/ \E b \in BOOLEAN : shared' = [settled |-> b, count |-> shared.count + 1,
                                          results |-> shared.results \cup {k}]
        BY <2>5, Zenon DEF ChildDone
      <4>2. CASE shared' = [shared EXCEPT !.settled = TRUE]
        BY <4>2 DEF CombTypeOK
      <4>3. ASSUME NEW b \in BOOLEAN,
                   shared' = [settled |-> b, count |-> shared.count + 1,
                              results |-> shared.results \cup {k}]
            PROVE  shared' \in [settled : BOOLEAN, count : Nat, results : SUBSET Kids]
        BY <4>3 DEF CombTypeOK
      <4> QED
        BY <4>1, <4>2, <4>3 DEF CombTypeOK
    <3>2. /\ outer' \in {"pending", "running", "result", "error", "cancelled"}
          /\ cb' \in [Kids -> {"none", "added", "queued", "put", "chain", "removed", "end"}]
      BY <2>5 DEF ChildDone, Complete, CombTypeOK
    <3> QED
      BY <2>5, <3>1, <3>2 DEF ChildDone, CombTypeOK
  <2>6. CASE OnDone(k)
    <3>1. shared' \in [settled : BOOLEAN, count : Nat, results : SUBSET Kids]
      <4> DEFINE sh == [shared EXCEPT !.count = @ + 1]
      <4>1. sh \in [settled : BOOLEAN, count : Nat, results : SUBSET Kids]
        BY DEF CombTypeOK
      <4>2. shared' = sh \/ shared' = [sh EXCEPT !.settled = TRUE]
        BY <2>6, Zenon DEF OnDone, ReleaseWaiter
      <4> QED
        BY <4>1, <4>2
    <3>2. /\ outer' \in {"pending", "running", "result", "error", "cancelled"}
          /\ cb' \in [Kids -> {"none", "added", "queued", "put", "chain", "removed", "end"}]
      BY <2>6 DEF OnDone, Complete, ReleaseWaiter, CombTypeOK
    <3> QED
      BY <2>6, <3>1, <3>2 DEF OnDone, CombTypeOK
  <2>7. CASE InnerDone(k)
    <3>0. st[k] \in {"ok", "error", "cancelled"}
      BY <2>7 DEF InnerDone, CalledEnded, Called, Ended
    <3>1. outer' \in {"pending", "running", "result", "error", "cancelled"}
      BY <2>7, <3>0 DEF InnerDone, Complete, CombTypeOK
    <3> QED
      BY <2>7, <3>1 DEF InnerDone, CombTypeOK
  <2>8. CASE OnCompletion(k)
    BY <2>8 DEF OnCompletion, CombTypeOK
  <2>9. CASE PutItem(k)
    BY <2>9 DEF PutItem, CombTypeOK
  <2>10. CASE Chain(k)
    BY <2>10 DEF Chain, CombTypeOK
  <2>11. CASE TimeoutDrop(k)
    BY <2>11 DEF TimeoutDrop, CombTypeOK
  <2> QED
    BY <1>1, <2>1, <2>2, <2>3, <2>4, <2>5, <2>6, <2>7, <2>8, <2>9, <2>10, <2>11 DEF Steps
<1>2. ASSUME CallSteps PROVE CombTypeOK'
  <2>1. CASE EnsureEnd
    <3>1. ASSUME NEW k \in app.kids, caller' = [caller EXCEPT !.pc = "end", !.exc = Raised(k, "cancel")]
          PROVE  CombTypeOK'
      <4>1. Raised(k, "cancel") \in {"none", "error", "cancel"}
        BY DEF Raised
      <4> QED
        BY <2>1, <3>1, <4>1, ZenonT(40) DEF EnsureEnd, CombTypeOK
    <3>2. ASSUME caller' = [caller EXCEPT !.pc = "add", !.left = app.kids, !.size = Cardinality(app.kids)]
          PROVE  CombTypeOK'
      BY <2>1, <3>2, ZenonT(40) DEF EnsureEnd, CombTypeOK
    <3> QED
      BY <2>1, <3>1, <3>2 DEF EnsureEnd
  <2>2. CASE AddEnd
    BY <2>2 DEF AddEnd, CombTypeOK
  <2>3. CASE AwaitEnd
    BY <2>3 DEF AwaitEnd, Outcome, CombTypeOK
  <2>4. CASE FinallyEnd
    <3>1. ASSUME NEW x \in {"none", "error", "timeout", caller.exc},
                 caller' = [caller EXCEPT !.pc = "end", !.exc = x, !.got = {k \in app.kids : Ended(k)}]
          PROVE  CombTypeOK'
      BY <2>4, <3>1 DEF FinallyEnd, CombTypeOK
    <3>2. \A k : Raised(k, "timeout") \in {"none", "error", "timeout"}
      BY DEF Raised
    <3> QED
      BY <2>4, <3>1, <3>2 DEF FinallyEnd
  <2>5. CASE Consume
    <3>1. CASE caller.size = 0 /\ caller' = [caller EXCEPT !.pc = "end"] /\ UNCHANGED items
      BY <2>5, <3>1 DEF Consume, CombTypeOK
    <3>2. CASE caller.size > 0 /\ items # <<>>
      <4>1. Tail(items) \in Seq(Kids \cup {Timed}) /\ Head(items) \in Kids \cup {Timed}
        BY <3>2 DEF CombTypeOK
      <4>2. CASE Head(items) = Timed
        BY <2>5, <3>2, <4>1, <4>2, ZenonT(40) DEF Consume, CombTypeOK
      <4>3. CASE Head(items) # Timed
        <5>1. caller.size - 1 \in Nat /\ caller.got \cup {Head(items)} \subseteq Kids
          BY <3>2, <4>1, <4>3 DEF CombTypeOK
        <5> QED
          BY <2>5, <3>2, <4>1, <4>3, <5>1, ZenonT(40) DEF Consume, CombTypeOK
      <4> QED
        BY <4>2, <4>3
    <3> QED
      BY <2>5, <3>1, <3>2 DEF Consume
  <2>6. CASE Timeout
    BY <2>6, ZenonT(40) DEF Timeout, ReleaseWaiter, Complete, CombTypeOK
  <2>7. CASE TimeoutList
    BY <2>7 DEF TimeoutList, CombTypeOK
  <2>8. CASE TimeoutClear
    BY <2>8 DEF TimeoutClear, CombTypeOK
  <2>9. CASE CancelCaller
    BY <2>9, ZenonT(40) DEF CancelCaller, CombTypeOK
  <2> QED
    BY <1>2, <2>1, <2>2, <2>3, <2>4, <2>5, <2>6, <2>7, <2>8, <2>9 DEF CallSteps
<1>3. CASE UNCHANGED combVars
  BY <1>3 DEF combVars, CombTypeOK
<1> QED
  BY <1>1, <1>2, <1>3, NextSteps

-----------------------------------------------------------------------------
\* What ends stays ended, and keeps its outcome.
LEMMA EndedStays ==
  ASSUME CombTypeOK, Setup, [CombNext]_combVars, NEW k \in Kids, Ended(k)
  PROVE  st'[k] = st[k] /\ Ended(k)' /\ app' = app
<1>1. ASSUME NEW j \in Kids, Steps(j) PROVE st'[k] = st[k] /\ app' = app
  <2>1. CASE EnsureFuture(j)
    <3>1. j # k
      BY <2>1 DEF EnsureFuture, Setup, Ended
    <3> QED
      BY <2>1, <3>1 DEF EnsureFuture, CombTypeOK
  <2>2. CASE KidEnds(j)
    <3>1. j # k
      BY <2>2 DEF KidEnds, Ended
    <3> QED
      BY <2>2, <3>1 DEF KidEnds, CombTypeOK
  <2> QED
    BY <1>1, <2>1, <2>2 DEF Steps, AddCallback, Finally, ChildDone, OnDone, InnerDone, OnCompletion,
      PutItem, Chain, TimeoutDrop
<1>2. ASSUME CallSteps PROVE st' = st /\ app' = app
  BY <1>2 DEF CallSteps, EnsureEnd, AddEnd, AwaitEnd, FinallyEnd, Consume, Timeout, TimeoutList,
    TimeoutClear, CancelCaller
<1>3. CASE UNCHANGED combVars
  BY <1>3 DEF combVars, Ended
<1> QED
  BY <1>1, <1>2, <1>3, NextSteps DEF Ended

\* Setup.
LEMMA SetupStep == CombTypeOK /\ Setup /\ [CombNext]_combVars => Setup'
<1> SUFFICES ASSUME CombTypeOK, Setup, [CombNext]_combVars PROVE Setup'
  OBVIOUS
<1> USE AppTyped DEF At, Kind
<1>1. ASSUME NEW k \in Kids, Steps(k) PROVE Setup'
  <2>1. CASE EnsureFuture(k)
    BY <2>1 DEF EnsureFuture, CombTypeOK, Setup
  <2>2. CASE AddCallback(k)
    <3>1. caller.pc = "add" /\ k \in caller.left /\ timer' = timer /\ app' = app
      BY <2>2 DEF AddCallback
    <3>3. \/ caller' = [caller EXCEPT !.pc = "end", !.exc = "runtime"] /\ cb' = cb
          \/ caller' = [caller EXCEPT !.left = @ \ {k}]
      BY <2>2 DEF AddCallback
    <3>4. CASE caller' = [caller EXCEPT !.pc = "end", !.exc = "runtime"] /\ cb' = cb
      BY <3>1, <3>4 DEF CombTypeOK, Setup
    <3>5. CASE caller' = [caller EXCEPT !.left = @ \ {k}]
      <4>1. caller'.pc = "add" /\ caller'.left = caller.left \ {k}
        BY <3>1, <3>5 DEF CombTypeOK
      <4> QED
        BY <2>2, <3>1, <4>1 DEF Setup, AddCallback, Register, CombTypeOK
    <3> QED
      BY <3>3, <3>4, <3>5
  <2>3. CASE Finally(k)
    BY <2>3 DEF Finally, CombTypeOK, Setup
  <2>4. CASE KidEnds(k)
    BY <2>4 DEF KidEnds, CombTypeOK, Setup
  <2>5. CASE ChildDone(k)
    BY <2>5 DEF ChildDone, CombTypeOK, Setup
  <2>6. CASE OnDone(k)
    BY <2>6 DEF OnDone, CombTypeOK, Setup
  <2>7. CASE InnerDone(k)
    BY <2>7 DEF InnerDone, CombTypeOK, Setup
  <2>8. CASE OnCompletion(k)
    BY <2>8 DEF OnCompletion, CombTypeOK, Setup
  <2>9. CASE PutItem(k)
    BY <2>9 DEF PutItem, CombTypeOK, Setup
  <2>10. CASE Chain(k)
    BY <2>10 DEF Chain, CombTypeOK, Setup
  <2>11. CASE TimeoutDrop(k)
    BY <2>11 DEF TimeoutDrop, CombTypeOK, Setup
  <2> QED
    BY <1>1, <2>1, <2>2, <2>3, <2>4, <2>5, <2>6, <2>7, <2>8, <2>9, <2>10, <2>11 DEF Steps
<1>2. ASSUME CallSteps PROVE Setup'
  <2>1. CASE EnsureEnd
    <3>1. caller'.pc \in {"add", "end"} /\ (caller'.left = caller.left \/ caller'.left = app.kids)
      BY <2>1 DEF EnsureEnd, CombTypeOK
    <3> QED
      BY <2>1, <3>1 DEF EnsureEnd, Setup
  <2>2. CASE AddEnd
    BY <2>2 DEF AddEnd, CombTypeOK, Setup
  <2>3. CASE AwaitEnd
    BY <2>3 DEF AwaitEnd, CombTypeOK, Setup
  <2>4. CASE FinallyEnd
    BY <2>4 DEF FinallyEnd, CombTypeOK, Setup
  <2>5. CASE Consume
    <3>1. caller.pc = "consume" /\ caller'.pc \in {"consume", "end"} /\ caller'.left = caller.left
      BY <2>5 DEF Consume, CombTypeOK
    <3> QED
      BY <2>5, <3>1 DEF Consume, Setup
  <2>6. CASE Timeout
    BY <2>6 DEF Timeout, CombTypeOK, Setup
  <2>7. CASE TimeoutList
    BY <2>7 DEF TimeoutList, CombTypeOK, Setup
  <2>8. CASE TimeoutClear
    BY <2>8 DEF TimeoutClear, CombTypeOK, Setup
  <2>9. CASE CancelCaller
    BY <2>9 DEF CancelCaller, CombTypeOK, Setup
  <2> QED
    BY <1>2, <2>1, <2>2, <2>3, <2>4, <2>5, <2>6, <2>7, <2>8, <2>9 DEF CallSteps
<1>3. CASE UNCHANGED combVars
  BY <1>3 DEF combVars, Setup
<1> QED
  BY <1>1, <1>2, <1>3, NextSteps

\* The callbacks.

LEMMA ResultsFinite ==
  ASSUME CombTypeOK
  PROVE  IsFiniteSet(shared.results) /\ IsFiniteSet({k \in Kids : cb[k] = "end"})
  <1>1. shared.results \subseteq Kids /\ {k \in Kids : cb[k] = "end"} \subseteq Kids /\ IsFiniteSet(Kids)
    BY AppsAssumption DEF CombTypeOK
  <1> QED
    BY <1>1, FS_Subset

LEMMA CalledEndedStep == CombInv /\ [CombNext]_combVars => CalledEnded'
<1> SUFFICES ASSUME CombInv, [CombNext]_combVars PROVE CalledEnded'
  OBVIOUS
<1> USE AppTyped DEF CombInv, At, Called, Ended
<1>1. ASSUME NEW k \in Kids, Steps(k) PROVE CalledEnded'
  <2>1. CASE EnsureFuture(k)
    BY <2>1 DEF EnsureFuture, Setup, CombTypeOK, CalledEnded
  <2>2. CASE AddCallback(k)
    BY <2>2 DEF AddCallback, Register, CombTypeOK, CalledEnded
  <2>3. CASE Finally(k)
    BY <2>3 DEF Finally, CombTypeOK, CalledEnded
  <2>4. CASE KidEnds(k)
    BY <2>4 DEF KidEnds, CombTypeOK, CalledEnded
  <2>5. CASE ChildDone(k)
    BY <2>5 DEF ChildDone, Complete, CombTypeOK, CalledEnded
  <2>6. CASE OnDone(k)
    BY <2>6 DEF OnDone, ReleaseWaiter, Complete, CombTypeOK, CalledEnded
  <2>7. CASE InnerDone(k)
    BY <2>7 DEF InnerDone, Complete, CombTypeOK, CalledEnded
  <2>8. CASE OnCompletion(k)
    BY <2>8 DEF OnCompletion, CombTypeOK, CalledEnded
  <2>9. CASE PutItem(k)
    BY <2>9 DEF PutItem, CombTypeOK, CalledEnded
  <2>10. CASE Chain(k)
    BY <2>10 DEF Chain, CombTypeOK, CalledEnded
  <2>11. CASE TimeoutDrop(k)
    BY <2>11 DEF TimeoutDrop, CombTypeOK, CalledEnded
  <2> QED
    BY <1>1, <2>1, <2>2, <2>3, <2>4, <2>5, <2>6, <2>7, <2>8, <2>9, <2>10, <2>11 DEF Steps
<1>2. ASSUME CallSteps PROVE CalledEnded'
  <2>1. CASE EnsureEnd
    BY <2>1 DEF EnsureEnd, CombTypeOK, CalledEnded
  <2>2. CASE AddEnd
    BY <2>2 DEF AddEnd, CombTypeOK, CalledEnded
  <2>3. CASE AwaitEnd
    BY <2>3 DEF AwaitEnd, Outcome, CombTypeOK, CalledEnded
  <2>4. CASE FinallyEnd
    BY <2>4 DEF FinallyEnd, CombTypeOK, CalledEnded
  <2>5. CASE Consume
    BY <2>5 DEF Consume, CombTypeOK, CalledEnded
  <2>6. CASE Timeout
    BY <2>6 DEF Timeout, ReleaseWaiter, Complete, CombTypeOK, CalledEnded
  <2>7. CASE TimeoutList
    BY <2>7 DEF TimeoutList, CombTypeOK, CalledEnded
  <2>8. CASE TimeoutClear
    BY <2>8 DEF TimeoutClear, CombTypeOK, CalledEnded
  <2>9. CASE CancelCaller
    BY <2>9 DEF CancelCaller, CombTypeOK, CalledEnded
  <2> QED
    BY <1>2, <2>1, <2>2, <2>3, <2>4, <2>5, <2>6, <2>7, <2>8, <2>9 DEF CallSteps
<1>3. CASE UNCHANGED combVars
  BY <1>3 DEF combVars, CalledEnded
<1> QED
  BY <1>1, <1>2, <1>3, NextSteps

LEMMA GatherCountStep == CombInv /\ [CombNext]_combVars => GatherCount'
<1> SUFFICES ASSUME CombInv, [CombNext]_combVars PROVE GatherCount'
  OBVIOUS
<1> USE AppTyped DEF CombInv, At, Kind
<1>1. ASSUME NEW k \in Kids, Steps(k) PROVE GatherCount'
  <2>1. CASE EnsureFuture(k)
    BY <2>1 DEF EnsureFuture, Setup, CombTypeOK, GatherCount
  <2>2. CASE AddCallback(k)
    BY <2>2 DEF AddCallback, Register, Setup, CombTypeOK, GatherCount
  <2>3. CASE Finally(k)
    BY <2>3 DEF Finally, CombTypeOK, GatherCount
  <2>4. CASE KidEnds(k)
    BY <2>4 DEF KidEnds, CombTypeOK, GatherCount
  <2>5. CASE ChildDone(k)
    <3>0. k \in app.kids /\ k \notin shared.results /\ app' = app /\ st' = st /\ Ended(k)
          /\ cb' = [cb EXCEPT ![k] = "end"]
      BY <2>5 DEF ChildDone, Setup, GatherCount, CalledEnded, Called
    <3>1. CASE shared' = shared \/ shared' = [shared EXCEPT !.settled = TRUE]
      <4>1. shared'.count = shared.count /\ shared'.results = shared.results
        BY <3>1 DEF CombTypeOK
      <4> QED
        BY <2>5, <3>0, <4>1 DEF ChildDone, CombTypeOK, GatherCount
    <3>2. CASE /\ shared'.count = shared.count + 1
               /\ shared'.results = shared.results \cup {k}
               /\ ~(Failed(k) /\ app.mode # "return_exceptions")
      <4>1. shared'.count = Cardinality(shared'.results)
        BY <2>5, <3>0, <3>2, ResultsFinite, FS_AddElement, ZenonT(40) DEF ChildDone, GatherCount
      <4>2. app.mode # "return_exceptions" => st[k] = "ok"
        BY <3>0, <3>2 DEF Failed, Ended
      <4> QED
        BY <2>5, <3>0, <3>2, <4>1, <4>2 DEF ChildDone, CombTypeOK, GatherCount
    <3> QED
      BY <2>5, <3>1, <3>2 DEF ChildDone
  <2>6. CASE OnDone(k)
    BY <2>6 DEF OnDone, ReleaseWaiter, Complete, CombTypeOK, GatherCount
  <2>7. CASE InnerDone(k)
    BY <2>7 DEF InnerDone, Complete, CombTypeOK, GatherCount
  <2>8. CASE OnCompletion(k)
    BY <2>8 DEF OnCompletion, CombTypeOK, GatherCount
  <2>9. CASE PutItem(k)
    BY <2>9 DEF PutItem, CombTypeOK, GatherCount
  <2>10. CASE Chain(k)
    BY <2>10 DEF Chain, CombTypeOK, GatherCount
  <2>11. CASE TimeoutDrop(k)
    BY <2>11 DEF TimeoutDrop, CombTypeOK, GatherCount
  <2> QED
    BY <1>1, <2>1, <2>2, <2>3, <2>4, <2>5, <2>6, <2>7, <2>8, <2>9, <2>10, <2>11 DEF Steps
<1>2. ASSUME CallSteps PROVE GatherCount'
  <2>1. CASE EnsureEnd
    BY <2>1 DEF EnsureEnd, CombTypeOK, GatherCount
  <2>2. CASE AddEnd
    BY <2>2 DEF AddEnd, CombTypeOK, GatherCount
  <2>3. CASE AwaitEnd
    BY <2>3 DEF AwaitEnd, Outcome, CombTypeOK, GatherCount
  <2>4. CASE FinallyEnd
    BY <2>4 DEF FinallyEnd, CombTypeOK, GatherCount
  <2>5. CASE Consume
    BY <2>5 DEF Consume, CombTypeOK, GatherCount
  <2>6. CASE Timeout
    BY <2>6 DEF Timeout, ReleaseWaiter, Complete, CombTypeOK, GatherCount
  <2>7. CASE TimeoutList
    BY <2>7 DEF TimeoutList, CombTypeOK, GatherCount
  <2>8. CASE TimeoutClear
    BY <2>8 DEF TimeoutClear, CombTypeOK, GatherCount
  <2>9. CASE CancelCaller
    BY <2>9 DEF CancelCaller, CombTypeOK, GatherCount
  <2> QED
    BY <1>2, <2>1, <2>2, <2>3, <2>4, <2>5, <2>6, <2>7, <2>8, <2>9 DEF CallSteps
<1>3. CASE UNCHANGED combVars
  BY <1>3 DEF combVars, GatherCount
<1> QED
  BY <1>1, <1>2, <1>3, NextSteps

LEMMA WaitCountStep == CombInv /\ [CombNext]_combVars => WaitCount'
<1> SUFFICES ASSUME CombInv, [CombNext]_combVars PROVE WaitCount'
  OBVIOUS
<1> USE AppTyped DEF CombInv, At, Kind
<1>1. ASSUME NEW k \in Kids, Steps(k) PROVE WaitCount'
  <2>1. CASE EnsureFuture(k)
    BY <2>1 DEF EnsureFuture, CombTypeOK, WaitCount
  <2>2. CASE AddCallback(k)
    <3>1. {j \in Kids : cb'[j] = "end"} = {j \in Kids : cb[j] = "end"}
      BY <2>2 DEF AddCallback, Register, Setup, CombTypeOK
    <3> QED
      BY <2>2, <3>1 DEF AddCallback, WaitCount
  <2>3. CASE Finally(k)
    BY <2>3 DEF Finally, CombTypeOK, WaitCount
  <2>4. CASE KidEnds(k)
    <3>1. {j \in Kids : cb'[j] = "end"} = {j \in Kids : cb[j] = "end"}
      BY <2>4 DEF KidEnds, CombTypeOK
    <3> QED
      BY <2>4, <3>1 DEF KidEnds, WaitCount
  <2>5. CASE ChildDone(k)
    BY <2>5 DEF ChildDone, Complete, CombTypeOK, WaitCount
  <2>6. CASE OnDone(k)
    <3>1. {j \in Kids : cb'[j] = "end"} = {j \in Kids : cb[j] = "end"} \cup {k}
          /\ k \notin {j \in Kids : cb[j] = "end"}
      BY <2>6 DEF OnDone, CombTypeOK
    <3>2. shared'.count = shared.count + 1 /\ app' = app
      <4> DEFINE sh == [shared EXCEPT !.count = @ + 1]
      <4>1. sh.count = shared.count + 1 /\ [sh EXCEPT !.settled = TRUE].count = shared.count + 1
        BY DEF CombTypeOK
      <4>2. app' = app /\ (shared' = sh \/ shared' = [sh EXCEPT !.settled = TRUE])
        BY <2>6, Zenon DEF OnDone, ReleaseWaiter
      <4> QED
        BY <4>1, <4>2
    <3> QED
      <4>1. Cardinality({j \in Kids : cb[j] = "end"} \cup {k}) = Cardinality({j \in Kids : cb[j] = "end"}) + 1
        BY <3>1, ResultsFinite, FS_AddElement
      <4> QED
        BY <3>1, <3>2, <4>1 DEF WaitCount
  <2>7. CASE InnerDone(k)
    BY <2>7 DEF InnerDone, Complete, CombTypeOK, WaitCount
  <2>8. CASE OnCompletion(k)
    BY <2>8 DEF OnCompletion, CombTypeOK, WaitCount
  <2>9. CASE PutItem(k)
    BY <2>9 DEF PutItem, Setup, WaitCount
  <2>10. CASE Chain(k)
    BY <2>10 DEF Chain, CombTypeOK, WaitCount
  <2>11. CASE TimeoutDrop(k)
    BY <2>11 DEF TimeoutDrop, CombTypeOK, WaitCount
  <2> QED
    BY <1>1, <2>1, <2>2, <2>3, <2>4, <2>5, <2>6, <2>7, <2>8, <2>9, <2>10, <2>11 DEF Steps
<1>2. ASSUME CallSteps PROVE WaitCount'
  <2>1. CASE EnsureEnd
    BY <2>1 DEF EnsureEnd, CombTypeOK, WaitCount
  <2>2. CASE AddEnd
    BY <2>2 DEF AddEnd, CombTypeOK, WaitCount
  <2>3. CASE AwaitEnd
    BY <2>3 DEF AwaitEnd, Outcome, CombTypeOK, WaitCount
  <2>4. CASE FinallyEnd
    BY <2>4 DEF FinallyEnd, CombTypeOK, WaitCount
  <2>5. CASE Consume
    BY <2>5 DEF Consume, CombTypeOK, WaitCount
  <2>6. CASE Timeout
    BY <2>6 DEF Timeout, ReleaseWaiter, Complete, CombTypeOK, WaitCount
  <2>7. CASE TimeoutList
    BY <2>7 DEF TimeoutList, CombTypeOK, WaitCount
  <2>8. CASE TimeoutClear
    BY <2>8 DEF TimeoutClear, CombTypeOK, WaitCount
  <2>9. CASE CancelCaller
    BY <2>9 DEF CancelCaller, CombTypeOK, WaitCount
  <2> QED
    BY <1>2, <2>1, <2>2, <2>3, <2>4, <2>5, <2>6, <2>7, <2>8, <2>9 DEF CallSteps
<1>3. CASE UNCHANGED combVars
  BY <1>3 DEF combVars, WaitCount
<1> QED
  BY <1>1, <1>2, <1>3, NextSteps

LEMMA LeavingCleanStep == CombInv /\ [CombNext]_combVars => LeavingClean'
<1> SUFFICES ASSUME CombInv, [CombNext]_combVars PROVE LeavingClean'
  OBVIOUS
<1> USE AppTyped DEF CombInv, At, Kind, Ended
<1>1. ASSUME NEW k \in Kids, Steps(k) PROVE LeavingClean'
  <2>1. CASE EnsureFuture(k)
    BY <2>1 DEF EnsureFuture, CombTypeOK, LeavingClean
  <2>2. CASE AddCallback(k)
    BY <2>2, ZenonT(40) DEF AddCallback, Register, CombTypeOK, LeavingClean
  <2>3. CASE Finally(k)
    BY <2>3 DEF Finally, CombTypeOK, LeavingClean
  <2>4. CASE KidEnds(k)
    BY <2>4 DEF KidEnds, CombTypeOK, LeavingClean
  <2>5. CASE ChildDone(k)
    BY <2>5 DEF ChildDone, Complete, CombTypeOK, LeavingClean
  <2>6. CASE OnDone(k)
    BY <2>6 DEF OnDone, ReleaseWaiter, Complete, CombTypeOK, LeavingClean
  <2>7. CASE InnerDone(k)
    BY <2>7 DEF InnerDone, Complete, CombTypeOK, LeavingClean
  <2>8. CASE OnCompletion(k)
    BY <2>8 DEF OnCompletion, CombTypeOK, LeavingClean
  <2>9. CASE PutItem(k)
    BY <2>9 DEF PutItem, CombTypeOK, LeavingClean
  <2>10. CASE Chain(k)
    BY <2>10 DEF Chain, CombTypeOK, LeavingClean
  <2>11. CASE TimeoutDrop(k)
    BY <2>11 DEF TimeoutDrop, CombTypeOK, LeavingClean
  <2> QED
    BY <1>1, <2>1, <2>2, <2>3, <2>4, <2>5, <2>6, <2>7, <2>8, <2>9, <2>10, <2>11 DEF Steps
<1>2. ASSUME CallSteps PROVE LeavingClean'
  <2>1. CASE EnsureEnd
    BY <2>1, ZenonT(40) DEF EnsureEnd, CombTypeOK, LeavingClean
  <2>2. CASE AddEnd
    BY <2>2 DEF AddEnd, CombTypeOK, LeavingClean
  <2>3. CASE AwaitEnd
    BY <2>3 DEF AwaitEnd, Outcome, CombTypeOK, LeavingClean
  <2>4. CASE FinallyEnd
    BY <2>4 DEF FinallyEnd, CombTypeOK, LeavingClean
  <2>5. CASE Consume
    BY <2>5 DEF Consume, CombTypeOK, LeavingClean
  <2>6. CASE Timeout
    BY <2>6 DEF Timeout, ReleaseWaiter, Complete, CombTypeOK, LeavingClean
  <2>7. CASE TimeoutList
    BY <2>7 DEF TimeoutList, CombTypeOK, LeavingClean
  <2>8. CASE TimeoutClear
    BY <2>8 DEF TimeoutClear, CombTypeOK, LeavingClean
  <2>9. CASE CancelCaller
    BY <2>9 DEF CancelCaller, CombTypeOK, LeavingClean
  <2> QED
    BY <1>2, <2>1, <2>2, <2>3, <2>4, <2>5, <2>6, <2>7, <2>8, <2>9 DEF CallSteps
<1>3. CASE UNCHANGED combVars
  BY <1>3 DEF combVars, LeavingClean
<1> QED
  BY <1>1, <1>2, <1>3, NextSteps


-----------------------------------------------------------------------------
\* The two properties.

LEMMA CleanExitStep == CombInv /\ [CombNext]_combVars => CleanExit'
<1> SUFFICES ASSUME CombInv, [CombNext]_combVars PROVE CleanExit'
  OBVIOUS
<1> USE AppTyped DEF CombInv, At, Kind, Ended, LeavingClean, Setup
<1>1. ASSUME NEW k \in Kids, Steps(k) PROVE CleanExit'
  <2>1. CASE EnsureFuture(k)
    BY <2>1 DEF EnsureFuture, CombTypeOK, CleanExit
  <2>2. CASE AddCallback(k)
    BY <2>2, SMTT(30) DEF AddCallback, Register, CombTypeOK, CleanExit
  <2>3. CASE Finally(k)
    BY <2>3 DEF Finally, CombTypeOK, CleanExit
  <2>4. CASE KidEnds(k)
    BY <2>4 DEF KidEnds, CombTypeOK, CleanExit
  <2>5. CASE ChildDone(k)
    BY <2>5 DEF ChildDone, Complete, CombTypeOK, CleanExit
  <2>6. CASE OnDone(k)
    BY <2>6 DEF OnDone, ReleaseWaiter, Complete, CombTypeOK, CleanExit
  <2>7. CASE InnerDone(k)
    BY <2>7 DEF InnerDone, Complete, CombTypeOK, CleanExit
  <2>8. CASE OnCompletion(k)
    BY <2>8 DEF OnCompletion, CombTypeOK, CleanExit
  <2>9. CASE PutItem(k)
    BY <2>9 DEF PutItem, CombTypeOK, CleanExit
  <2>10. CASE Chain(k)
    BY <2>10 DEF Chain, CombTypeOK, CleanExit
  <2>11. CASE TimeoutDrop(k)
    BY <2>11 DEF TimeoutDrop, CombTypeOK, CleanExit
  <2> QED
    BY <1>1, <2>1, <2>2, <2>3, <2>4, <2>5, <2>6, <2>7, <2>8, <2>9, <2>10, <2>11 DEF Steps
<1>2. ASSUME CallSteps PROVE CleanExit'
  <2>1. CASE EnsureEnd
    <3>1. \A k \in Kids : cb'[k] = "none"
      BY <2>1 DEF EnsureEnd
    <3>2. CASE Kind({"gather"})
      <4>1. caller' = [caller EXCEPT !.pc = "add", !.left = app.kids, !.size = Cardinality(app.kids)]
        BY <2>1, <3>2 DEF EnsureEnd, Kind
      <4> QED
        BY <3>1, <4>1 DEF CombTypeOK, CleanExit
    <3>3. CASE ~Kind({"gather"})
      BY <2>1, <3>1, <3>3 DEF EnsureEnd, CleanExit, Kind
    <3> QED
      BY <3>2, <3>3
  <2>2. CASE AddEnd
    BY <2>2 DEF AddEnd, CombTypeOK, CleanExit
  <2>3. CASE AwaitEnd
    BY <2>3 DEF AwaitEnd, Outcome, CombTypeOK, CleanExit
  <2>4. CASE FinallyEnd
    BY <2>4 DEF FinallyEnd, CombTypeOK, CleanExit
  <2>5. CASE Consume
    BY <2>5 DEF Consume, CombTypeOK, CleanExit
  <2>6. CASE Timeout
    BY <2>6 DEF Timeout, ReleaseWaiter, Complete, CombTypeOK, CleanExit
  <2>7. CASE TimeoutList
    BY <2>7 DEF TimeoutList, CombTypeOK, CleanExit
  <2>8. CASE TimeoutClear
    BY <2>8 DEF TimeoutClear, CombTypeOK, CleanExit
  <2>9. CASE CancelCaller
    BY <2>9 DEF CancelCaller, CombTypeOK, CleanExit
  <2> QED
    BY <1>2, <2>1, <2>2, <2>3, <2>4, <2>5, <2>6, <2>7, <2>8, <2>9 DEF CallSteps
<1>3. CASE UNCHANGED combVars
  BY <1>3 DEF combVars, CleanExit
<1> QED
  BY <1>1, <1>2, <1>3, NextSteps




\* A result, and the end of the time, stay.
LEMMA ResultsStay ==
  ASSUME CombInv, [CombNext]_combVars
  PROVE  /\ app' = app
         /\ shared.results \subseteq shared'.results
         /\ timer.st = "fired" => timer'.st = "fired"
<1> USE DEF CombInv
<1>1. ASSUME NEW k \in Kids, Steps(k)
      PROVE  /\ app' = app
             /\ shared.results \subseteq shared'.results
             /\ timer.st = "fired" => timer'.st = "fired"
  <2>1. CASE ChildDone(k)
    BY <2>1 DEF ChildDone, CombTypeOK
  <2>2. CASE OnDone(k)
    BY <2>2 DEF OnDone, ReleaseWaiter, CombTypeOK
  <2>3. CASE PutItem(k) \/ TimeoutDrop(k)
    BY <2>3 DEF PutItem, TimeoutDrop, CombTypeOK
  <2> QED
    BY <1>1, <2>1, <2>2, <2>3 DEF Steps, EnsureFuture, AddCallback, Finally, KidEnds, InnerDone,
      OnCompletion, Chain
<1>2. ASSUME CallSteps
      PROVE  /\ app' = app
             /\ shared.results \subseteq shared'.results
             /\ timer.st = "fired" => timer'.st = "fired"
  <2>1. CASE AddEnd
    BY <2>1 DEF AddEnd, Setup, CombTypeOK
  <2>2. CASE FinallyEnd
    BY <2>2 DEF FinallyEnd, CombTypeOK
  <2>3. CASE Timeout
    BY <2>3 DEF Timeout, ReleaseWaiter, CombTypeOK
  <2>4. CASE TimeoutList \/ TimeoutClear
    BY <2>4 DEF TimeoutList, TimeoutClear, CombTypeOK
  <2> QED
    BY <1>2, <2>1, <2>2, <2>3, <2>4 DEF CallSteps, EnsureEnd, AwaitEnd, Consume, CancelCaller
<1>3. CASE UNCHANGED combVars
  BY <1>3 DEF combVars
<1> QED
  BY <1>1, <1>2, <1>3, NextSteps

\* What was promised stays true.
LEMMA PromiseStays ==
  ASSUME CombInv, [CombNext]_combVars, outer = "result" PROVE NotEarly'
<1> USE ResultsStay, EndedStays, AppTyped DEF CombInv
<1>1. \A k \in app.kids : Ended(k) => Ended(k)' /\ st'[k] = st[k]
  OBVIOUS
<1>2. Kind({"gather"}) => shared'.results = app.kids
  <2>1. GatherCount'
    BY GatherCountStep
  <2> QED
    BY <2>1 DEF GatherCount, Kind, NotEarly
<1> QED
  BY <1>1, <1>2 DEF NotEarly, Kind, Failed, Ended

\* The calls that take a single child.
LEMMA OnlyChild ==
  ASSUME CombTypeOK, Kind({"wait_for", "shield", "threadsafe"}), NEW k \in app.kids
  PROVE  app.kids = {k}
<1>1. Cardinality(app.kids) = 1 /\ IsFiniteSet(app.kids)
  BY AppTyped, AppsAssumption DEF CombTypeOK, Kind
<1>2. Cardinality({k}) = 1 /\ {k} \subseteq app.kids
  BY FS_Singleton
<1> QED
  BY <1>1, <1>2, FS_Subset

LEMMA NotEarlyStep == CombInv /\ [CombNext]_combVars => NotEarly'
<1> SUFFICES ASSUME CombInv, [CombNext]_combVars, outer # "result", outer' = "result" PROVE NotEarly'
  BY PromiseStays DEF NotEarly
<1> USE ResultsStay, AppTyped DEF CombInv
<1>1. ASSUME NEW k \in Kids, Steps(k) PROVE NotEarly'
  <2>0. Called(k) => Ended(k) /\ k \in app.kids
    BY DEF CalledEnded, Called, Setup
  <2>1. CASE ChildDone(k)
    <3>1. /\ Kind({"gather"}) /\ k \in app.kids /\ k \notin shared.results /\ st' = st
          /\ shared'.results = shared.results \cup {k}
          /\ shared.count + 1 = Cardinality(app.kids)
      BY <2>0, <2>1 DEF ChildDone, Complete, GatherCount, Called
    <3>2. /\ shared.results \cup {k} \subseteq app.kids
          /\ Cardinality(shared.results \cup {k}) = Cardinality(app.kids)
      <4>1. Cardinality(shared.results \cup {k}) = Cardinality(shared.results) + 1
        BY <3>1, ResultsFinite, FS_AddElement
      <4> QED
        BY <3>1, <4>1 DEF GatherCount
    <3>3. shared.results \cup {k} = app.kids
      BY <3>2, FS_Subset
    <3>4. GatherCount' /\ CalledEnded'
      BY GatherCountStep, CalledEndedStep
    <3> QED
      BY <3>1, <3>3, <3>4 DEF NotEarly, GatherCount, CalledEnded, Called, Kind, Ended
  <2>2. CASE OnDone(k)
    <3>1. /\ Kind({"wait"}) /\ Ended(k) /\ k \in app.kids /\ st' = st
          /\ \/ app.mode = "FIRST_COMPLETED"
             \/ app.mode = "FIRST_EXCEPTION" /\ Failed(k)
             \/ shared.count + 1 = Cardinality(app.kids)
      BY <2>0, <2>2 DEF OnDone, Called, CombTypeOK
    <3>2. CASE shared.count + 1 = Cardinality(app.kids)
      <4> DEFINE Over == {j \in Kids : cb[j] = "end"}
      <4>1. k \notin Over /\ Over \cup {k} \subseteq app.kids
        BY <2>2, <3>1 DEF OnDone, Setup
      <4>2. Cardinality(Over \cup {k}) = Cardinality(app.kids)
        <5>1. Cardinality(Over \cup {k}) = Cardinality(Over) + 1
          BY <4>1, ResultsFinite, FS_AddElement
        <5> QED
          BY <3>1, <3>2, <5>1 DEF WaitCount
      <4>3. Over \cup {k} = app.kids
        BY <4>1, <4>2, FS_Subset
      <4>4. \A j \in app.kids : Ended(j)
        BY <3>1, <4>3 DEF CalledEnded, Called
      <4> QED
        BY <3>1, <4>4 DEF NotEarly, Kind, Ended
    <3>3. CASE shared.count + 1 # Cardinality(app.kids)
      BY <3>1, <3>3 DEF NotEarly, Kind, Ended, Failed
    <3> QED
      BY <3>2, <3>3
  <2>3. CASE InnerDone(k) \/ Chain(k)
    <3>1. Called(k) /\ st' = st /\ Kind({"wait_for", "shield", "threadsafe"})
      BY <2>3 DEF InnerDone, Chain, Called, Kind
    <3>2. app.kids = {k}
      BY <2>0, <3>1, OnlyChild
    <3> QED
      BY <2>0, <3>1, <3>2 DEF NotEarly, Kind, Ended
  <2> QED
    BY <1>1, <2>1, <2>2, <2>3 DEF Steps, EnsureFuture, AddCallback, Finally, KidEnds, OnCompletion,
      PutItem, TimeoutDrop
<1>2. ASSUME CallSteps PROVE NotEarly'
  <2>1. CASE Timeout
    BY <2>1 DEF Timeout, NotEarly, Kind, CombTypeOK
  <2>2. ~Timeout => outer' # "result"
    BY <1>2 DEF CallSteps, EnsureEnd, AddEnd, AwaitEnd, FinallyEnd, Consume, TimeoutList, TimeoutClear,
      CancelCaller
  <2> QED
    BY <2>1, <2>2
<1>3. CASE UNCHANGED combVars
  BY <1>3 DEF combVars
<1> QED
  BY <1>1, <1>2, <1>3, NextSteps

LEMMA CombInvInit == CombInit => CombInv
<1> SUFFICES ASSUME CombInit PROVE CombInv
  OBVIOUS
<1>1. CombTypeOK
  BY CombTypeInit
<1>2. Cardinality({}) = 0 /\ {k \in Kids : cb[k] = "end"} = {}
  BY FS_EmptySet DEF CombInit
<1> QED
  BY <1>1, <1>2, AppTyped DEF CombInit, CombInv, Setup, CalledEnded, Called, GatherCount, WaitCount,
    LeavingClean, NotEarly, CleanExit, At, Kind

LEMMA CombInvStep == CombInv /\ [CombNext]_combVars => CombInv'
  BY CombTypeStep, SetupStep, CalledEndedStep, GatherCountStep, WaitCountStep, LeavingCleanStep,
    NotEarlyStep, CleanExitStep DEF CombInv

\* Whatever the children, their outcomes, the order of their callbacks, the timeout and the
\* cancel of the caller: the state of gather, wait, shield, wait_for and as_completed in
\* _ctl.py and _utils.py is always of its type.
THEOREM CombinatorsTyped == CombSpec => []CombTypeOK
<1>1. CombInit => CombInv
  BY CombInvInit
<1>2. CombInv /\ [CombNext]_combVars => CombInv'
  BY CombInvStep
<1>3. CombInv => CombTypeOK
  BY DEF CombInv
<1> QED
  BY <1>1, <1>2, <1>3, PTL DEF CombSpec

\* The future that gather, wait, shield or wait_for awaits has a result only when what its
\* caller was promised holds.
THEOREM ResultNotEarly == CombSpec => []NotEarly
<1>1. CombInit => CombInv
  BY CombInvInit
<1>2. CombInv /\ [CombNext]_combVars => CombInv'
  BY CombInvStep
<1>3. CombInv => NotEarly
  BY DEF CombInv
<1> QED
  BY <1>1, <1>2, <1>3, PTL DEF CombSpec

\* A caller of gather that was cancelled leaves no child uncancelled, and one of wait or
\* wait_for no callback.
THEOREM ExitIsClean == CombSpec => []CleanExit
<1>1. CombInit => CombInv
  BY CombInvInit
<1>2. CombInv /\ [CombNext]_combVars => CombInv'
  BY CombInvStep
<1>3. CombInv => CleanExit
  BY DEF CombInv
<1> QED
  BY <1>1, <1>2, <1>3, PTL DEF CombSpec
=============================================================================
