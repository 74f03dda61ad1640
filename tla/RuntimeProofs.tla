---------------------------- MODULE RuntimeProofs ---------------------------
(***************************************************************************)
(* Proofs about the runtime below the event loop: BlockingPool, Suspension,*)
(* and the start and stop of the whole of it, Lifecycle with Compat; for   *)
(* every number of threads, tasks, coroutines and loops, and every program.*)
(***************************************************************************)
EXTENDS BlockingPool, Suspension, Lifecycle, QueueLemmas, FiniteSetTheorems, TLAPS

-----------------------------------------------------------------------------
\* BlockingPool.

\* What the channel operations return.
LEMMA ChannelFacts ==
  ASSUME NEW S, NEW s \in Seq(S)
  PROVE  /\ \A x \in S : Append(s, x) \in Seq(S)
         /\ s # <<>> => Head(s) \in S /\ Tail(s) \in Seq(S)
  OBVIOUS

LEMMA BlockingTypeInit == BlockingInit => BlockingTypeOK
  BY SizeAssumption DEF BlockingInit, BlockingTypeOK, SubmitterPCs, ThreadPCs

LEMMA BlockingTypeStep == BlockingTypeOK /\ [BlockingNext]_blockingVars => BlockingTypeOK'
<1> SUFFICES ASSUME BlockingTypeOK, [BlockingNext]_blockingVars PROVE BlockingTypeOK'
  OBVIOUS
<1> USE SizeAssumption, TaskAssumption
    DEF BlockingTypeOK, SubmitterPCs, ThreadPCs, CGoto, TGoto, counters, callerVars, threadVars
<1>1. ASSUME NEW c \in Submitters, NEW t \in Tasks, RunLoad(c, t) PROVE BlockingTypeOK'
  BY <1>1 DEF RunLoad
<1>2. ASSUME NEW c \in Submitters, Send(c) PROVE BlockingTypeOK'
  BY <1>2, ChannelFacts DEF Send
<1>3. ASSUME NEW c \in Submitters, Count(c) PROVE BlockingTypeOK'
  BY <1>3 DEF Count
<1>4. ASSUME NEW c \in Submitters, Spawn(c) PROVE BlockingTypeOK'
  <2>1. tpc' = tpc \/ \E w \in Slots : TGoto(w, "wait")
    BY <1>4 DEF Spawn
  <2>2. /\ tpc' \in [Slots -> ThreadPCs]
        /\ \A w \in Slots : tpc'[w] = "run" => tpc[w] = "run"
    BY <2>1
  <2>3. /\ cpc' \in [Submitters -> SubmitterPCs]
        /\ \A d \in Submitters : cpc'[d] = "send" => cpc[d] = "send"
    BY <1>4 DEF Spawn
  <2> QED
    BY <1>4, <2>2, <2>3 DEF Spawn
<1>5. ASSUME NEW c \in Submitters, SpawnUndo(c) PROVE BlockingTypeOK'
  BY <1>5 DEF SpawnUndo
<1>6. ASSUME NEW w \in Slots, Wait(w) PROVE BlockingTypeOK'
  BY <1>6 DEF Wait
<1>7. ASSUME NEW w \in Slots, Recv(w) PROVE BlockingTypeOK'
  BY <1>7, ChannelFacts DEF Recv
<1>8. ASSUME NEW w \in Slots, TimeOut(w) PROVE BlockingTypeOK'
  BY <1>8 DEF TimeOut
<1>9. ASSUME NEW w \in Slots, Received(w) PROVE BlockingTypeOK'
  BY <1>9 DEF Received
<1>10. ASSUME NEW w \in Slots, Retire(w) PROVE BlockingTypeOK'
  BY <1>10 DEF Retire
<1>11. ASSUME NEW w \in Slots, Run(w) PROVE BlockingTypeOK'
  BY <1>11 DEF Run
<1>12. CASE Terminated
  BY <1>12 DEF Terminated, blockingVars
<1>13. CASE UNCHANGED blockingVars
  BY <1>13 DEF blockingVars
<1> QED
  BY <1>1, <1>2, <1>3, <1>4, <1>5, <1>6, <1>7, <1>8, <1>9, <1>10, <1>11, <1>12, <1>13
     DEF BlockingNext, SubmitterStep, ThreadStep

\* Every variable keeps its type, and nobody hands over or runs a task it does not
\* have.
THEOREM BlockingTyped == BlockingSpec => []BlockingTypeOK
  BY BlockingTypeInit, BlockingTypeStep, PTL DEF BlockingSpec

-----------------------------------------------------------------------------
\* Counting the threads.

LEMMA OneMore ==
  ASSUME NEW S, IsFiniteSet(S), NEW x, x \notin S
  PROVE  Cardinality(S \cup {x}) = Cardinality(S) + 1
  BY FS_AddElement

LEMMA OneLess ==
  ASSUME NEW S, IsFiniteSet(S), NEW x, x \in S
  PROVE  Cardinality(S \ {x}) = Cardinality(S) - 1
  BY FS_RemoveElement

LEMMA CountedAreFinite ==
  /\ IsFiniteSet(Live) /\ Cardinality(Live) \in Nat
  /\ IsFiniteSet(Undoing) /\ Cardinality(Undoing) \in Nat
<1>1. Live \subseteq Slots /\ Undoing \subseteq Submitters
  BY DEF Live, Undoing
<1> QED
  BY <1>1, FS_Subset, FS_CardinalityType, FiniteAssumption

\* The inductive invariant: the bound needs the count, because spawn_thread decides
\* by the count alone.
Counting == ThreadsCounted /\ ThreadsBounded

LEMMA CountingInit == BlockingInit => Counting
<1> SUFFICES ASSUME BlockingInit PROVE Counting
  OBVIOUS
<1>1. Live = {} /\ Undoing = {}
  BY DEF BlockingInit, Live, Undoing
<1> QED
  BY <1>1, FS_EmptySet, SizeAssumption DEF BlockingInit, Counting, ThreadsCounted, ThreadsBounded

LEMMA CountingStep == BlockingTypeOK /\ Counting /\ [BlockingNext]_blockingVars => Counting'
<1> SUFFICES ASSUME BlockingTypeOK, Counting, [BlockingNext]_blockingVars PROVE Counting'
  OBVIOUS
<1>0. /\ IsFiniteSet(Live) /\ Cardinality(Live) \in Nat
      /\ IsFiniteSet(Undoing) /\ Cardinality(Undoing) \in Nat
      /\ threads \in Int /\ tmax \in Nat
      /\ threads = Cardinality(Live) + Cardinality(Undoing)
      /\ Cardinality(Live) <= tmax
  BY CountedAreFinite, SizeAssumption DEF BlockingTypeOK, Counting, ThreadsCounted, ThreadsBounded
\* A step that neither starts nor ends a thread, and neither refuses one nor gives a
\* refusal back.
<1>a. ASSUME Live' = Live, Undoing' = Undoing, threads' = threads PROVE Counting'
  BY <1>0, <1>a DEF Counting, ThreadsCounted, ThreadsBounded
<1> USE DEF BlockingTypeOK, CGoto, TGoto, counters, callerVars, threadVars
<1>1. ASSUME NEW c \in Submitters, NEW t \in Tasks, RunLoad(c, t) PROVE Counting'
  BY <1>1, <1>a DEF RunLoad, Live, Undoing
<1>2. ASSUME NEW c \in Submitters, Send(c) PROVE Counting'
  BY <1>2, <1>a DEF Send, Live, Undoing
<1>3. ASSUME NEW c \in Submitters, Count(c) PROVE Counting'
  BY <1>3, <1>a DEF Count, Live, Undoing
<1>4. ASSUME NEW c \in Submitters, Spawn(c) PROVE Counting'
  <2>1. CASE threads >= tmax
    <3>1. c \notin Undoing /\ Undoing' = Undoing \cup {c}
      BY <1>4, <1>0, <2>1 DEF Spawn, Undoing
    <3>2. Live' = Live /\ threads' = threads + 1
      BY <1>4, <1>0, <2>1 DEF Spawn, Live
    <3>3. Cardinality(Undoing') = Cardinality(Undoing) + 1
      BY <1>0, <3>1, OneMore
    <3> QED
      BY <1>0, <3>2, <3>3 DEF Counting, ThreadsCounted, ThreadsBounded
  <2>2. CASE threads < tmax
    <3>1. PICK w \in Slots : tpc[w] = "none" /\ TGoto(w, "wait")
      BY <1>4, <1>0, <2>2 DEF Spawn
    <3>2. w \notin Live /\ Live' = Live \cup {w}
      BY <3>1 DEF Live
    <3>3. Undoing' = Undoing /\ threads' = threads + 1
      BY <1>4, <1>0, <2>2 DEF Spawn, Undoing
    <3>4. Cardinality(Live') = Cardinality(Live) + 1
      BY <1>0, <3>2, OneMore
    <3> QED
      BY <1>0, <2>2, <3>3, <3>4 DEF Counting, ThreadsCounted, ThreadsBounded
  <2> QED
    BY <1>0, <2>1, <2>2
<1>5. ASSUME NEW c \in Submitters, SpawnUndo(c) PROVE Counting'
  <2>1. c \in Undoing /\ Undoing' = Undoing \ {c}
    BY <1>5 DEF SpawnUndo, Undoing
  <2>2. Live' = Live /\ threads' = threads - 1
    BY <1>5 DEF SpawnUndo, Live
  <2>3. Cardinality(Undoing') = Cardinality(Undoing) - 1
    BY <1>0, <2>1, OneLess
  <2> QED
    BY <1>0, <2>2, <2>3 DEF Counting, ThreadsCounted, ThreadsBounded
<1>6. ASSUME NEW w \in Slots, Wait(w) PROVE Counting'
  BY <1>6, <1>a DEF Wait, Live, Undoing
<1>7. ASSUME NEW w \in Slots, Recv(w) PROVE Counting'
  BY <1>7, <1>a DEF Recv, Live, Undoing
<1>8. ASSUME NEW w \in Slots, TimeOut(w) PROVE Counting'
  BY <1>8, <1>a DEF TimeOut, Live, Undoing
<1>9. ASSUME NEW w \in Slots, Received(w) PROVE Counting'
  BY <1>9, <1>a DEF Received, Live, Undoing
<1>10. ASSUME NEW w \in Slots, Retire(w) PROVE Counting'
  <2>1. w \in Live /\ Live' = Live \ {w}
    BY <1>10 DEF Retire, Live
  <2>2. Undoing' = Undoing /\ threads' = threads - 1
    BY <1>10 DEF Retire, Undoing
  <2>3. Cardinality(Live') = Cardinality(Live) - 1
    BY <1>0, <2>1, OneLess
  <2> QED
    BY <1>0, <2>2, <2>3 DEF Counting, ThreadsCounted, ThreadsBounded
<1>11. ASSUME NEW w \in Slots, Run(w) PROVE Counting'
  BY <1>11, <1>a DEF Run, Live, Undoing
<1>12. CASE Terminated
  BY <1>12, <1>a DEF Terminated, blockingVars, Live, Undoing
<1>13. CASE UNCHANGED blockingVars
  BY <1>13, <1>a DEF blockingVars, Live, Undoing
<1> QED
  BY <1>1, <1>2, <1>3, <1>4, <1>5, <1>6, <1>7, <1>8, <1>9, <1>10, <1>11, <1>12, <1>13
     DEF BlockingNext, SubmitterStep, ThreadStep

\* The inductive invariant holds in every reachable state.
LEMMA CountingAlways == BlockingSpec => []Counting
  BY BlockingTypeInit, BlockingTypeStep, CountingInit, CountingStep, PTL DEF BlockingSpec

\* `threads` counts the live threads and the refusals still to be given back, so a
\* thread that retires while run and spawn_thread race on the counter never makes it
\* drift.
THEOREM ThreadsAreCounted == BlockingSpec => []ThreadsCounted
  BY CountingAlways, PTL DEF Counting

\* The pool never has more than tmax threads, whatever the callers saw when they
\* decided to start one.
THEOREM PoolIsBounded == BlockingSpec => []ThreadsBounded
  BY CountingAlways, PTL DEF Counting
-----------------------------------------------------------------------------
\* Tasks are neither lost nor run twice, and the pool implements HandlePool.

InQueue(t) == t \in Content(queue)
InHand(t)  == \E w \in Slots : cur[w] = t
Offered(t) == \E c \in Submitters : item[c] = t

\* A caller has a task only until it has sent it, a thread only from recv_timeout to the
\* end of BlockingTask::run.
HandsMatch ==
  /\ \A c \in Submitters : cpc[c] # "send" => item[c] = NoTask
  /\ \A w \in Slots : tpc[w] \notin {"count", "run"} => cur[w] = NoTask

\* Nobody else has the task a caller or a thread has.
HandsApart ==
  /\ Once(queue)
  /\ \A c, d \in Submitters : c # d /\ item[c] = item[d] => item[c] = NoTask
  /\ \A v, w \in Slots : v # w /\ cur[v] = cur[w] => cur[v] = NoTask

PlacesApart ==
  \A t \in Tasks :
    /\ t \in fresh \/ Offered(t) \/ InQueue(t) \/ InHand(t) \/ t \in done
    /\ t \in fresh => ~Offered(t) /\ ~InQueue(t) /\ ~InHand(t) /\ t \notin done
    /\ Offered(t)  => ~InQueue(t) /\ ~InHand(t) /\ t \notin done
    /\ InQueue(t)  => ~InHand(t) /\ t \notin done
    /\ InHand(t)   => t \notin done

TaskInOnePlace == HandsApart /\ PlacesApart

\* What a step may do to the tasks: nothing (a wait may time out), load one, send it, take
\* it out of the channel, or finish it.
placeVars == <<queue, item, cur, fresh, done>>

Loads(c, t) ==
  /\ t \in fresh /\ item[c] = NoTask
  /\ fresh' = fresh \ {t} /\ item' = [item EXCEPT ![c] = t]
  /\ UNCHANGED <<queue, cur, done, timeouts>>

Sends(c) ==
  /\ item[c] # NoTask
  /\ queue' = Append(queue, item[c]) /\ item' = [item EXCEPT ![c] = NoTask]
  /\ UNCHANGED <<fresh, cur, done, timeouts>>

Takes(w) ==
  /\ queue # <<>> /\ cur[w] = NoTask /\ w \in Live
  /\ cur' = [cur EXCEPT ![w] = Head(queue)] /\ queue' = Tail(queue)
  /\ UNCHANGED <<fresh, item, done, timeouts>>

Finishes(w) ==
  /\ cur[w] # NoTask
  /\ done' = done \cup {cur[w]} /\ cur' = [cur EXCEPT ![w] = NoTask]
  /\ UNCHANGED <<queue, fresh, item, timeouts>>

Rests == UNCHANGED placeVars /\ (UNCHANGED timeouts \/ timeouts' = timeouts + 1)

TaskMove ==
  \/ Rests
  \/ \E c \in Submitters, t \in Tasks : Loads(c, t)
  \/ \E c \in Submitters : Sends(c)
  \/ \E w \in Slots : Takes(w) \/ Finishes(w)

LEMMA EveryStepIsATaskMove == BlockingTypeOK /\ HandsMatch /\ [BlockingNext]_blockingVars => HandsMatch' /\ TaskMove
<1> SUFFICES ASSUME BlockingTypeOK, HandsMatch, [BlockingNext]_blockingVars PROVE HandsMatch' /\ TaskMove
  OBVIOUS
<1> USE TaskAssumption
    DEF BlockingTypeOK, HandsMatch, SubmitterPCs, ThreadPCs, CGoto, TGoto, counters, callerVars,
        threadVars, placeVars, Rests
<1>1. ASSUME NEW c \in Submitters, NEW t \in Tasks, RunLoad(c, t) PROVE HandsMatch' /\ Loads(c, t)
  BY <1>1 DEF RunLoad, Loads
<1>2. ASSUME NEW c \in Submitters, Send(c) PROVE HandsMatch' /\ Sends(c)
  BY <1>2 DEF Send, Sends
<1>3. ASSUME NEW c \in Submitters, Count(c) PROVE HandsMatch' /\ Rests
  BY <1>3 DEF Count
<1>4. ASSUME NEW c \in Submitters, Spawn(c) PROVE HandsMatch' /\ Rests
  <2>1. Rests /\ seen' = seen
    BY <1>4 DEF Spawn
  <2>2. \A d \in Submitters : cpc'[d] # "send" => cpc[d] # "send"
    BY <1>4 DEF Spawn
  <2>3. \A w \in Slots : tpc'[w] \notin {"count", "run"} => tpc[w] \notin {"count", "run"}
    <3>1. tpc' = tpc \/ \E w \in Slots : tpc[w] = "none" /\ TGoto(w, "wait")
      BY <1>4 DEF Spawn
    <3> QED
      BY <3>1
  <2> QED
    BY <2>1, <2>2, <2>3
<1>5. ASSUME NEW c \in Submitters, SpawnUndo(c) PROVE HandsMatch' /\ Rests
  BY <1>5 DEF SpawnUndo
<1>6. ASSUME NEW w \in Slots, Wait(w) PROVE HandsMatch' /\ Rests
  BY <1>6 DEF Wait
<1>7. ASSUME NEW w \in Slots, Recv(w) PROVE HandsMatch' /\ Takes(w)
  BY <1>7 DEF Recv, Takes, Live
<1>8. ASSUME NEW w \in Slots, TimeOut(w) PROVE HandsMatch' /\ Rests
  BY <1>8 DEF TimeOut
<1>9. ASSUME NEW w \in Slots, Received(w) PROVE HandsMatch' /\ Rests
  BY <1>9 DEF Received
<1>10. ASSUME NEW w \in Slots, Retire(w) PROVE HandsMatch' /\ Rests
  BY <1>10 DEF Retire
<1>11. ASSUME NEW w \in Slots, Run(w) PROVE HandsMatch' /\ Finishes(w)
  BY <1>11 DEF Run, Finishes
<1>12. CASE UNCHANGED blockingVars
  BY <1>12 DEF blockingVars, TaskMove
<1> QED
  BY <1>1, <1>2, <1>3, <1>4, <1>5, <1>6, <1>7, <1>8, <1>9, <1>10, <1>11, <1>12
     DEF BlockingNext, SubmitterStep, ThreadStep, TaskMove, Terminated

LEMMA TaskInOnePlaceStep == BlockingTypeOK /\ TaskInOnePlace /\ TaskMove => TaskInOnePlace'
<1> SUFFICES ASSUME BlockingTypeOK, TaskInOnePlace, TaskMove PROVE TaskInOnePlace'
  OBVIOUS
<1> USE TaskAssumption DEF BlockingTypeOK, TaskInOnePlace
<1>1. CASE Rests
  BY <1>1 DEF Rests, placeVars, HandsApart, PlacesApart, InQueue, InHand, Offered
<1>2. ASSUME NEW c \in Submitters, NEW t \in Tasks, Loads(c, t) PROVE TaskInOnePlace'
  <2>1. item'[c] = t /\ \A d \in Submitters : d # c => item'[d] = item[d]
    BY <1>2 DEF Loads
  <2>2. \A x \in Tasks : Offered(x)' <=> Offered(x) \/ x = t
    BY <1>2, <2>1 DEF Loads, Offered
  <2>3. \A x \in Tasks : (InQueue(x)' <=> InQueue(x)) /\ (InHand(x)' <=> InHand(x))
    BY <1>2 DEF Loads, InQueue, InHand
  <2>4. PlacesApart'
    BY <1>2, <2>2, <2>3 DEF Loads, PlacesApart
  <2>5. HandsApart'
    BY <1>2, <2>1 DEF Loads, HandsApart, PlacesApart, Offered
  <2> QED
    BY <2>4, <2>5
<1>3. ASSUME NEW c \in Submitters, Sends(c) PROVE TaskInOnePlace'
  <2>0. PICK t \in Tasks : t = item[c]
    BY <1>3 DEF Sends
  <2>1. item'[c] = NoTask /\ \A d \in Submitters : d # c => item'[d] = item[d]
    BY <1>3 DEF Sends
  <2>2. /\ Content(queue') = Content(queue) \cup {t}
        /\ t \notin Content(queue) => Once(queue')
    BY <1>3, <2>0, AppendContent DEF Sends, HandsApart
  <2>3. Offered(t)
    BY <2>0 DEF Offered
  <2>4. \A x \in Tasks : Offered(x)' <=> Offered(x) /\ x # t
    BY <2>0, <2>1 DEF Offered, HandsApart
  <2>5. \A x \in Tasks : (InQueue(x)' <=> InQueue(x) \/ x = t) /\ (InHand(x)' <=> InHand(x))
    BY <1>3, <2>2 DEF Sends, InQueue, InHand
  <2>6. PlacesApart'
    BY <1>3, <2>3, <2>4, <2>5 DEF Sends, PlacesApart
  <2>7. HandsApart'
    BY <1>3, <2>1, <2>2, <2>3 DEF Sends, HandsApart, PlacesApart, InQueue
  <2> QED
    BY <2>6, <2>7
<1>4. ASSUME NEW w \in Slots, Takes(w) PROVE TaskInOnePlace'
  <2>0. PICK t \in Tasks : t = Head(queue)
    BY <1>4 DEF Takes
  <2>1. cur'[w] = t /\ cur[w] = NoTask /\ \A v \in Slots : v # w => cur'[v] = cur[v]
    BY <1>4, <2>0 DEF Takes
  <2>2. t \in Content(queue) /\ Content(queue') = Content(queue) \ {t} /\ Once(queue')
    BY <1>4, <2>0, TailContent DEF Takes, HandsApart
  <2>3. InQueue(t)
    BY <2>2 DEF InQueue
  <2>4. \A x \in Tasks : InHand(x)' <=> InHand(x) \/ x = t
    BY <2>1 DEF InHand
  <2>5. \A x \in Tasks : (InQueue(x)' <=> InQueue(x) /\ x # t) /\ (Offered(x)' <=> Offered(x))
    BY <1>4, <2>2 DEF Takes, InQueue, Offered
  <2>6. PlacesApart'
    BY <1>4, <2>3, <2>4, <2>5 DEF Takes, PlacesApart
  <2>7. HandsApart'
    BY <1>4, <2>1, <2>2, <2>3 DEF Takes, HandsApart, PlacesApart, InHand
  <2> QED
    BY <2>6, <2>7
<1>5. ASSUME NEW w \in Slots, Finishes(w) PROVE TaskInOnePlace'
  <2>0. PICK t \in Tasks : t = cur[w]
    BY <1>5 DEF Finishes
  <2>1. cur'[w] = NoTask /\ \A v \in Slots : v # w => cur'[v] = cur[v]
    BY <1>5 DEF Finishes
  <2>2. InHand(t)
    BY <2>0 DEF InHand
  <2>3. \A x \in Tasks : InHand(x)' <=> InHand(x) /\ x # t
    BY <2>0, <2>1 DEF InHand, HandsApart
  <2>4. \A x \in Tasks : (InQueue(x)' <=> InQueue(x)) /\ (Offered(x)' <=> Offered(x))
    BY <1>5 DEF Finishes, InQueue, Offered
  <2>5. PlacesApart'
    BY <1>5, <2>0, <2>2, <2>3, <2>4 DEF Finishes, PlacesApart
  <2>6. HandsApart'
    BY <1>5, <2>1 DEF Finishes, HandsApart
  <2> QED
    BY <2>5, <2>6
<1> QED
  BY <1>1, <1>2, <1>3, <1>4, <1>5 DEF TaskMove

PoolInv == BlockingTypeOK /\ Counting /\ HandsMatch /\ TaskInOnePlace

LEMMA PoolInvInit == BlockingInit => PoolInv
<1> SUFFICES ASSUME BlockingInit PROVE PoolInv
  OBVIOUS
<1>1. Content(queue) = {} /\ Once(queue)
  BY DEF BlockingInit, Content, Once
<1>2. TaskInOnePlace
  BY <1>1, TaskAssumption DEF BlockingInit, TaskInOnePlace, HandsApart, PlacesApart, InQueue, InHand, Offered
<1> QED
  BY <1>2, BlockingTypeInit, CountingInit DEF BlockingInit, PoolInv, HandsMatch

LEMMA PoolInvStep == PoolInv /\ [BlockingNext]_blockingVars => PoolInv' /\ TaskMove
  BY BlockingTypeStep, CountingStep, EveryStepIsATaskMove, TaskInOnePlaceStep DEF PoolInv

\* The channel and the hands of callers and threads never lose or copy a task: each is in
\* exactly one place at any moment.
THEOREM TasksAreKept == BlockingSpec => []TaskInOnePlace
<1>1. PoolInv => TaskInOnePlace
  BY DEF PoolInv
<1> QED
  BY <1>1, PoolInvInit, PoolInvStep, PTL DEF BlockingSpec

\* What HandlePool sees of a task, and of all of them.
StatusOf(t) ==
  IF ~Handed(t) THEN "fresh"
  ELSE IF \E w \in Slots : cur[w] = t THEN "running"
  ELSE IF t \in done THEN "done" ELSE "queued"

Statuses == [t \in Tasks |-> StatusOf(t)]

\* A step that changes no task but t, as far as HandlePool can see.
Moves(t) == \A x \in Tasks \ {t} :
  /\ Handed(x)' <=> Handed(x)
  /\ InHand(x)' <=> InHand(x)
  /\ x \in done' <=> x \in done

LEMMA StatusMoves ==
  ASSUME NEW t \in Tasks, Moves(t)
  PROVE  Statuses' = [Statuses EXCEPT ![t] = StatusOf(t)']
<1>1. ASSUME NEW x \in Tasks, x # t PROVE StatusOf(x)' = StatusOf(x)
  BY <1>1 DEF Moves, InHand, StatusOf
<1> QED
  BY <1>1 DEF Statuses

\* HandlePool counts with the Cardinality of its own FiniteSets.
LEMMA PoolCardinality == ASSUME NEW S PROVE Pool!Cardinality(S) = Cardinality(S)
  BY DEF Pool!Cardinality, Cardinality, Pool!IsFiniteSet, IsFiniteSet

\* A live thread without a task leaves room for one more running task.
LEMMA RoomForOne ==
  ASSUME PoolInv, NEW w \in Live, cur[w] = NoTask
  PROVE  Cardinality({t \in Tasks : InHand(t)}) < tmax
<1> DEFINE S == {v \in Live : cur[v] # NoTask}
           R == {t \in Tasks : InHand(t)}
           f == [v \in S |-> cur[v]]
<1>1. IsFiniteSet(Live) /\ Cardinality(Live) \in Nat /\ Cardinality(Live) <= tmax
  BY CountedAreFinite DEF PoolInv, Counting, ThreadsBounded
<1>2. IsFiniteSet(S) /\ Cardinality(S) <= Cardinality(Live)
      /\ (Cardinality(Live) = Cardinality(S) => S = Live)
  BY <1>1, FS_Subset
<1>3. f \in Surjection(S, R)
  BY TaskAssumption DEF Surjection, InHand, PoolInv, BlockingTypeOK, HandsMatch, Live
<1>4. IsFiniteSet(R) /\ Cardinality(R) <= Cardinality(S)
  BY <1>2, <1>3, FS_Surjection
<1>5. S # Live /\ Cardinality(S) \in Nat /\ Cardinality(R) \in Nat
  BY <1>2, <1>4, FS_CardinalityType
<1> QED
  BY <1>1, <1>2, <1>4, <1>5, SizeAssumption

LEMMA MoveIsPoolStep ==
  PoolInv /\ PoolInv' /\ TaskMove => [Pool!PoolNext]_(Pool!poolVars)
<1> SUFFICES ASSUME PoolInv, PoolInv', TaskMove PROVE [Pool!PoolNext]_(Pool!poolVars)
  OBVIOUS
<1>0. PlacesApart /\ PlacesApart' /\ HandsApart /\ HandsApart' /\ BlockingTypeOK
  BY DEF PoolInv, TaskInOnePlace
<1>a. \A t \in Tasks : Handed(t) <=> t \notin fresh /\ ~Offered(t)
  BY DEF Handed, Offered
<1>b. \A t \in Tasks : Handed(t)' <=> t \notin fresh' /\ ~Offered(t)'
  BY DEF Handed, Offered
<1>1. CASE Rests
  <2>1. Statuses' = Statuses
    BY <1>1 DEF Rests, placeVars, Statuses, StatusOf, Handed
  <2>2. timeouts' = timeouts \/ timeouts' > 0
    BY <1>0, <1>1 DEF Rests, BlockingTypeOK
  <2> QED
    BY <2>1, <2>2 DEF Pool!PoolNext, Pool!Halt, Pool!poolVars, Statuses, StatusOf
<1>2. ASSUME NEW c \in Submitters, NEW t \in Tasks, Loads(c, t) PROVE UNCHANGED Pool!poolVars
  <2>1. item'[c] = t /\ item[c] = NoTask /\ \A d \in Submitters : d # c => item'[d] = item[d]
    BY <1>0, <1>2 DEF Loads, BlockingTypeOK
  <2>2. \A x \in Tasks : Offered(x)' <=> Offered(x) \/ x = t
    BY <2>1, TaskAssumption DEF Offered
  <2>3. \A x \in Tasks : Handed(x)' <=> Handed(x)
    BY <1>2, <1>a, <1>b, <2>2 DEF Loads
  <2>4. Statuses' = Statuses
    BY <1>2, <2>3 DEF Loads, Statuses, StatusOf
  <2> QED
    BY <1>2, <2>4 DEF Loads, Pool!poolVars, Statuses, StatusOf
<1>3. ASSUME NEW c \in Submitters, Sends(c) PROVE \E t \in Tasks : Pool!Submit(t)
  <2>0. PICK t \in Tasks : t = item[c]
    BY <1>0, <1>3 DEF Sends, BlockingTypeOK
  <2>1. item'[c] = NoTask /\ \A d \in Submitters : d # c => item'[d] = item[d]
    BY <1>0, <1>3 DEF Sends, BlockingTypeOK
  <2>2. Offered(t) /\ ~InHand(t) /\ t \notin fresh /\ t \notin done
    <3>1. Offered(t)
      BY <2>0 DEF Offered
    <3> QED
      BY <1>0, <3>1 DEF PlacesApart
  <2>3. \A x \in Tasks : Offered(x)' <=> Offered(x) /\ x # t
    BY <1>0, <2>0, <2>1, TaskAssumption DEF Offered, HandsApart
  <2>4. Moves(t)
    BY <1>3, <1>a, <1>b, <2>3 DEF Sends, InHand, Moves
  <2>5. StatusOf(t) = "fresh" /\ StatusOf(t)' = "queued"
    BY <1>3, <1>a, <1>b, <2>2, <2>3 DEF Sends, StatusOf, InHand
  <2>6. Statuses' = [Statuses EXCEPT ![t] = "queued"] /\ Statuses[t] = "fresh"
    BY <2>4, <2>5, StatusMoves DEF Statuses
  <2> QED
    BY <1>3, <2>6 DEF Sends, Pool!Submit, Pool!Move, Statuses, StatusOf
<1>4. ASSUME NEW w \in Slots, Takes(w) PROVE \E t \in Tasks : Pool!Take(t)
  <2>0. PICK t \in Tasks : t = Head(queue)
    BY <1>0, <1>4 DEF Takes, BlockingTypeOK
  <2>1. cur'[w] = t /\ cur[w] = NoTask /\ \A v \in Slots : v # w => cur'[v] = cur[v]
    BY <1>0, <1>4, <2>0 DEF Takes, BlockingTypeOK
  <2>2. InHand(t)' /\ t \notin fresh' /\ t \notin done' /\ ~Offered(t)'
    BY <1>0, <2>1 DEF InHand, PlacesApart
  <2>3. ~InHand(t) /\ Handed(t) /\ t \notin done
    BY <1>0, <1>4, <1>a, <2>1, <2>2, TaskAssumption DEF Takes, InHand, Offered, HandsApart
  <2>4. Moves(t)
    BY <1>4, <1>a, <1>b, <2>1, TaskAssumption DEF Takes, InHand, Offered, Moves
  <2>5. StatusOf(t) = "queued" /\ StatusOf(t)' = "running"
    BY <1>4, <1>b, <2>2, <2>3 DEF Takes, StatusOf, InHand
  <2>6. Statuses' = [Statuses EXCEPT ![t] = "running"] /\ Statuses[t] = "queued"
    BY <2>4, <2>5, StatusMoves DEF Statuses
  <2>7. {x \in Tasks : Statuses[x] = "running"} = {x \in Tasks : InHand(x)}
    <3>1. ASSUME NEW x \in Tasks PROVE Statuses[x] = "running" <=> InHand(x)
      BY <1>0, <1>a DEF Statuses, StatusOf, PlacesApart, InHand
    <3> QED
      BY <3>1
  <2>8. Cardinality({x \in Tasks : Statuses[x] = "running"}) < tmax
    BY <1>4, <2>1, <2>7, RoomForOne DEF Takes
  <2> QED
    BY <1>4, <2>6, <2>8, PoolCardinality
       DEF Takes, Pool!Take, Pool!Move, Pool!InState, Statuses, StatusOf
<1>5. ASSUME NEW w \in Slots, Finishes(w) PROVE \E t \in Tasks : Pool!Return(t)
  <2>0. PICK t \in Tasks : t = cur[w]
    BY <1>0, <1>5 DEF Finishes, BlockingTypeOK
  <2>1. cur'[w] = NoTask /\ \A v \in Slots : v # w => cur'[v] = cur[v]
    BY <1>0, <1>5 DEF Finishes, BlockingTypeOK
  <2>2. InHand(t) /\ Handed(t)
    <3>1. InHand(t)
      BY <2>0 DEF InHand
    <3> QED
      BY <1>0, <1>a, <3>1 DEF PlacesApart
  <2>3. t \in done' /\ ~InHand(t)' /\ Handed(t)'
    <3>1. t \in done'
      BY <1>5, <2>0 DEF Finishes
    <3> QED
      BY <1>0, <1>b, <3>1 DEF PlacesApart
  <2>4. Moves(t)
    BY <1>5, <1>a, <1>b, <2>0, <2>1, TaskAssumption DEF Finishes, InHand, Offered, Moves
  <2>5. StatusOf(t) = "running" /\ StatusOf(t)' = "done"
    BY <2>2, <2>3 DEF StatusOf, InHand
  <2>6. Statuses' = [Statuses EXCEPT ![t] = "done"] /\ Statuses[t] = "running"
    BY <2>4, <2>5, StatusMoves DEF Statuses
  <2> QED
    BY <1>5, <2>6 DEF Finishes, Pool!Return, Pool!Move, Statuses, StatusOf
<1> QED
  BY <1>1, <1>2, <1>3, <1>4, <1>5 DEF TaskMove, Pool!PoolNext

LEMMA PoolInitially == BlockingInit => Pool!PoolInit
<1> SUFFICES ASSUME BlockingInit PROVE Pool!PoolInit
  OBVIOUS
<1>1. ASSUME NEW t \in Tasks PROVE StatusOf(t) = "fresh"
  BY DEF BlockingInit, StatusOf, Handed
<1>2. Statuses \in [Tasks -> {"fresh", "queued"}]
  BY <1>1 DEF Statuses
<1> QED
  BY <1>2 DEF BlockingInit, Pool!PoolInit, Statuses, StatusOf

\* The blocking pool implements what HandlePool may do: never more than tmax tasks run at a
\* time, each is run at most once and only after it was handed over, whatever the threads
\* that retire and the callers that start threads do to each other's counters.
THEOREM RefinesPool == BlockingSpec => Pool!PoolSafety
<1>1. PoolInv /\ [BlockingNext]_blockingVars => PoolInv' /\ [Pool!PoolNext]_(Pool!poolVars)
  BY PoolInvStep, MoveIsPoolStep
<1> QED
  BY <1>1, PoolInitially, PoolInvInit, PTL DEF BlockingSpec, Pool!PoolSafety

-----------------------------------------------------------------------------
\* Suspension.

-----------------------------------------------------------------------------
\* The invariant.

SuspPCs == {"checkpoint", "error", "consume", "register", "added", "resume", "commit", "undo"}

Made(s)    == s[2] <= waits[Owner(s)]
Spoilt(c)  == hasCkpt[c] /\ aborted[c]
OnlySingle == \A l \in program.waits : Len(l) <= 1
Calm(c)    == Spoilt(c) => OnlySingle

\* A suspension that has not been made is known to nobody.
FreshSusp ==
  \A s \in Suspensions : ~Made(s) =>
    /\ events[s] = <<>> /\ ~consumed[s] /\ ~linked[s] /\ s \notin timers
    /\ \A t \in Agents : ag[t].pc \in SuspPCs => ag[t].s # s
    /\ \A e \in Events : ~Queued(s, e)

\* The checkpoint follows the coroutine from its first await of it on.
CkptFollows ==
  \A c \in Coros :
    /\ ckpt[c] = IF hasCkpt[c] THEN waits[c] ELSE 0
    /\ hasCkpt[c] => waits[c] > 0 /\ linked[Current(c)]
    /\ \A k \in 1..MaxWaits : linked[<<c, k>>] => hasCkpt[c]
    /\ aborted[c] => c \in program.aborts

\* What an agent knows of the suspension it is at.
AgentKnows(t) ==
  /\ ag[t].pc = "register" => events[ag[t].s] # <<>> /\ ag[t].i \in 1..(Len(events[ag[t].s]) + 1)
  /\ ag[t].pc = "added" => ag[t].i \in 1..Len(events[ag[t].s])
  /\ ag[t].pc = "checkpoint" => events[ag[t].s] = <<>>
  /\ ag[t].pc = "error" => Aborted(ag[t].s)
  /\ ag[t].pc = "consume" => Aborted(ag[t].s) /\ Multi(ag[t].s)
  /\ ag[t].pc = "undo" => Multi(ag[t].s) /\ Spoilt(Owner(ag[t].s))
  /\ ag[t].pc \in {"resume", "commit", "undo"} =>
       /\ ag[t].ret.pc = "idle" => Len(events[ag[t].s]) <= 1
       /\ ag[t].ret.pc = "notify" => \E i \in 1..Len(events[ag[t].s]) : events[ag[t].s][i] = ag[t].ret.e
       /\ ag[t].ret.pc = "added" => ag[t].ret.s = ag[t].s /\ ag[t].ret.i \in 1..Len(events[ag[t].s])
  /\ ag[t].pc = "unnotify" => ag[t].e \in program.clears
  /\ ag[t].pc = "abort" => aborted[ag[t].c]

AgentsKnow == \A t \in Agents : AgentKnows(t)

\* Only a wait for one event has a timer.
TimersSingle == \A s \in Suspensions : timed[s] \/ s \in timers => Len(events[s]) = 1

WaitsFor(s, e) == \E i \in 1..Len(events[s]) : events[s][i] = e

\* A waker is queued once, at an event of its suspension.
QueuedOnce ==
  \A e \in Events : Once(watchers[e]) /\ \A s \in Content(watchers[e]) : WaitsFor(s, e)

\* The agent is to register the i-th waker of s, or has it in its hands.
Holding(t, s, i) ==
  /\ ag[t].pc \in SuspPCs /\ ag[t].s = s
  /\ \/ ag[t].pc = "register" /\ ag[t].i <= i
     \/ ag[t].pc = "added" /\ ag[t].i < i
     \/ ag[t].pc \in {"resume", "commit"} /\ ag[t].ret.pc = "notify" /\ ag[t].ret.e = events[s][i]
     \/ ag[t].pc \in {"resume", "commit"} /\ ag[t].ret.pc = "added" /\ ag[t].ret.i <= i
     \/ ag[t].pc = "undo" /\ ag[t].ret.pc = "added" /\ ag[t].ret.i < i

\* A waker is in one place.
OnePlace ==
  \A s \in Suspensions : \A i \in 1..Len(events[s]) :
    /\ \A t, u \in Agents : Holding(t, s, i) /\ Holding(u, s, i) => t = u
    /\ \A t \in Agents : Holding(t, s, i) => ~Queued(s, events[s][i])

\* The wakers of s that have not yet been used.
Due(s) ==
  {i \in 1..Len(events[s]) : Queued(s, events[s][i]) \/ \E t \in Agents : Holding(t, s, i)}

Uncleared(s) == \A i \in 1..Len(events[s]) : events[s][i] \notin program.clears

\* The countdown is not lower than their number, and not higher where no event is cleared.
Countdown ==
  \A s \in Suspensions : Multi(s) /\ ~Spoilt(Owner(s)) =>
    /\ counter[s] >= Cardinality(Due(s))
    /\ Uncleared(s) => counter[s] = Cardinality(Due(s))

\* A wait for one event, or for none, that is not over has its waker.
SingleDue ==
  \A s \in Suspensions : Made(s) /\ ~Multi(s) /\ ~consumed[s] /\ ~Aborted(s) =>
    IF events[s] = <<>>
      THEN \E t \in Agents : ag[t].pc \in {"checkpoint", "resume", "commit"} /\ ag[t].s = s
      ELSE 1 \in Due(s)

\* Wakers at an event that is set have somebody who is about to take them.
Notifier(t, e) ==
  \/ ag[t].pc \in {"notify_lock", "notify"} /\ ag[t].e = e
  \/ ag[t].pc \in {"resume", "commit", "undo"} /\ ag[t].ret.pc = "notify" /\ ag[t].ret.e = e

SetIsNotified ==
  \A e \in Events : flag[e] /\ watchers[e] # <<>> => \E t \in Agents : Notifier(t, e)

\* The one token of a coroutine: it is queued, or driven, or waits.
Open(s)    == IF Multi(s) THEN counter[s] > 0 ELSE ~consumed[s]
Drives(t, c) == ag[t].pc = "running" /\ ag[t].c = c
Driven(c)  == \E t \in Agents : Drives(t, c)
Awaits(c)  == waits[c] > 0 /\ Open(Current(c))

OneToken ==
  \A c \in Coros : Calm(c) =>
    /\ handles[c] \in {0, 1}
    /\ c \in finished => handles[c] = 0 /\ ~Driven(c) /\ ~Awaits(c)
    /\ c \notin finished => handles[c] = 1 \/ Driven(c) \/ Awaits(c)
    /\ handles[c] = 1 => ~Driven(c) /\ ~Awaits(c)
    /\ Driven(c) => ~Awaits(c)
    /\ \A t, u \in Agents : Drives(t, c) /\ Drives(u, c) => t = u
    /\ \A k \in 1..MaxWaits : k < waits[c] => ~Open(<<c, k>>)

SuspInv ==
  /\ SuspTypeOK /\ FreshSusp /\ CkptFollows /\ AgentsKnow /\ TimersSingle /\ QueuedOnce /\ OnePlace
  /\ Countdown /\ SingleDue /\ SetIsNotified /\ OneToken

-----------------------------------------------------------------------------
\* Typing.

\* What the agent's record holds, by its place.
LEMMA AgentShape ==
  ASSUME SuspTypeOK, NEW t \in Agents
  PROVE  /\ ag[t].pc \in {"idle", "running", "abort", "notify_lock", "notify", "unnotify"} \cup SuspPCs
         /\ ag[t].pc \in {"running", "abort"} => ag[t].c \in Coros
         /\ ag[t].pc \in {"notify_lock", "notify", "unnotify"} => ag[t].e \in Events
         /\ ag[t].pc \in SuspPCs => ag[t].s \in Suspensions
         /\ ag[t].pc \in {"register", "added"} => ag[t].i \in Nat \ {0}
         /\ ag[t].pc \in {"resume", "commit", "undo"} =>
              /\ ag[t].ret \in Returns
              /\ ag[t].ret.pc \in {"idle", "notify", "added"}
              /\ ag[t].ret.pc = "idle" => ag[t].ret = Idle
              /\ ag[t].ret.pc = "notify" => ag[t].ret = Notifying(ag[t].ret.e) /\ ag[t].ret.e \in Events
              /\ ag[t].ret.pc = "added" =>
                   /\ ag[t].ret = [pc |-> "added", s |-> ag[t].ret.s, i |-> ag[t].ret.i]
                   /\ ag[t].ret.s \in Suspensions /\ ag[t].ret.i \in Nat \ {0}
              /\ \A p : [ag[t] EXCEPT !.pc = p] = [pc |-> p, s |-> ag[t].s, ret |-> ag[t].ret]
<1>1. ag[t] \in AgentStates
  BY DEF SuspTypeOK
<1>2. ASSUME NEW r \in Returns
      PROVE  /\ r.pc \in {"idle", "notify", "added"}
             /\ r.pc = "idle" => r = Idle
             /\ r.pc = "notify" => r = Notifying(r.e) /\ r.e \in Events
             /\ r.pc = "added" => /\ r = [pc |-> "added", s |-> r.s, i |-> r.i]
                                  /\ r.s \in Suspensions /\ r.i \in Nat \ {0}
  BY <1>2 DEF Returns, Idle, Notifying
<1>3. CASE ag[t] \in [pc : {"resume", "commit", "undo"}, s : Suspensions, ret : Returns]
  <2>1. \A p : [ag[t] EXCEPT !.pc = p] = [pc |-> p, s |-> ag[t].s, ret |-> ag[t].ret]
    BY <1>3
  <2>2. ag[t].pc \in {"resume", "commit", "undo"} /\ ag[t].s \in Suspensions /\ ag[t].ret \in Returns
    BY <1>3
  <2> QED
    BY <1>2, <2>1, <2>2 DEF SuspPCs
<1>4. CASE ag[t] \in {Idle} \cup [pc : {"running", "abort"}, c : Coros]
                     \cup [pc : {"notify_lock", "notify", "unnotify"}, e : Events]
  BY <1>4 DEF Idle, SuspPCs
<1>5. CASE ag[t] \in [pc : {"checkpoint", "error", "consume"}, s : Suspensions]
  BY <1>5 DEF SuspPCs
<1>6. CASE ag[t] \in [pc : {"register", "added"}, s : Suspensions, i : Nat \ {0}]
  BY <1>6 DEF SuspPCs
<1> QED
  BY <1>1, <1>3, <1>4, <1>5, <1>6 DEF AgentStates

LEMMA SuspShape ==
  ASSUME SuspTypeOK, NEW t \in Agents, ag[t].pc \in SuspPCs
  PROVE  /\ ag[t].s \in Suspensions /\ Owner(ag[t].s) \in Coros
         /\ ag[t].pc \in {"register", "added"} => ag[t].i \in Nat \ {0}
<1>1. ag[t].s \in Suspensions /\ (ag[t].pc \in {"register", "added"} => ag[t].i \in Nat \ {0})
  BY AgentShape
<1> QED
  BY <1>1 DEF Owner, Suspensions

LEMMA PushTyped ==
  ASSUME SuspTypeOK, NEW c \in Coros, handles' = handles \/ PushHandle(c)
  PROVE  handles' \in [Coros -> Nat]
<1>1. handles \in [Coros -> Nat]
  BY DEF SuspTypeOK
<1> QED
  BY <1>1 DEF PushHandle

LEMMA ReturnState == Returns \subseteq AgentStates /\ Idle \in AgentStates
  BY DEF Returns, AgentStates, Idle

LEMMA WaitsTyped ==
  ASSUME SuspTypeOK
  PROVE  /\ \A s \in Suspensions : /\ events[s] \in Seq(Events)
                                   /\ \A i, j \in 1..Len(events[s]) : events[s][i] = events[s][j] => i = j
                                   /\ Owner(s) \in Coros /\ s[2] \in 1..MaxWaits /\ s = <<Owner(s), s[2]>>
         /\ \A l \in program.waits : l \in Seq(Events)
         /\ MaxWaits \in Nat /\ program.max \in 0..MaxWaits
<1>1. \A l \in program.waits \cup {<<>>} :
        l \in Seq(Events) /\ \A i, j \in 1..Len(l) : l[i] = l[j] => i = j
  <2>1. ASSUME NEW l \in program.waits
        PROVE  l \in Seq(Events) /\ \A i, j \in 1..Len(l) : l[i] = l[j] => i = j
    <3>1. l \in Seq(Events) /\ \A i, j \in DOMAIN l : l[i] = l[j] => i = j
      BY ProgramsAssumption DEF SuspTypeOK
    <3> QED
      BY <3>1
  <2>2. ASSUME NEW l, l = <<>>
        PROVE  l \in Seq(Events) /\ \A i, j \in 1..Len(l) : l[i] = l[j] => i = j
    BY <2>2
  <2> QED
    BY <2>1, <2>2, Zenon
<1> QED
  BY <1>1, ProgramsAssumption DEF SuspTypeOK, Suspensions, Owner

LEMMA SuspTypeInit == SuspInit => SuspTypeOK
<1> SUFFICES ASSUME SuspInit PROVE SuspTypeOK
  OBVIOUS
<1>1. MaxWaits \in Nat
  BY ProgramsAssumption
<1> QED
  BY <1>1 DEF SuspInit, SuspTypeOK, AgentStates

LEMMA ContinueTyped ==
  ASSUME SuspTypeOK, UNCHANGED program, NEW t \in Agents, Continue(t)
  PROVE  SuspTypeOK'
<1> USE DEF At, Become, eventVars, suspVars, tokenVars, ckptVars
<1> DEFINE s == ag[t].s
           e == ag[t].e
<1>1. CASE Checkpoint(t)
  <2>1. [pc |-> "error", s |-> s] \in AgentStates /\ Resuming(s, Idle) \in AgentStates
    BY <1>1, AgentShape, ReturnState DEF Checkpoint, AgentStates, Returns, Resuming, SuspPCs
  <2> QED
    BY <1>1, <2>1 DEF Checkpoint, SuspTypeOK
<1>2. CASE AddWaker(t)
  <2>0. s \in Suspensions /\ ag[t].i \in Nat \ {0} /\ ag[t].i \in 1..Len(events[s])
        /\ events[s][ag[t].i] \in Events
    <3>1. s \in Suspensions /\ ag[t].i \in Nat \ {0} /\ ag[t].i <= Len(events[s])
      BY <1>2, AgentShape, ReturnState DEF AddWaker, SuspPCs
    <3>2. events[s] \in Seq(Events)
      BY <3>1, WaitsTyped
    <3> QED
      BY <3>1, <3>2
  <2>1. /\ Resuming(s, [pc |-> "added", s |-> s, i |-> ag[t].i]) \in AgentStates
        /\ Registering(s, ag[t].i + 1) \in AgentStates
    BY <2>0 DEF AgentStates, Returns, Resuming, Registering
  <2>2. ag' \in [Agents -> AgentStates]
    BY <1>2, <2>1 DEF AddWaker, SuspTypeOK
  <2>3. PICK x \in Events :
          /\ watchers' = watchers \/ watchers' = [watchers EXCEPT ![x] = Append(@, s)]
          /\ mutex' = mutex \/ mutex' = [mutex EXCEPT ![x] = t]
    BY <1>2, <2>0 DEF AddWaker
  <2>4. watchers' \in [Events -> Seq(Suspensions)]
    <3>1. watchers \in [Events -> Seq(Suspensions)] /\ s \in Suspensions
      BY <2>0 DEF SuspTypeOK
    <3>2. Append(watchers[x], s) \in Seq(Suspensions)
      BY <3>1
    <3> QED
      BY <2>3, <3>1, <3>2
  <2>5. mutex' \in [Events -> Agents \cup {Nobody}]
    BY <2>3 DEF SuspTypeOK
  <2> QED
    BY <1>2, <2>2, <2>4, <2>5 DEF AddWaker, SuspTypeOK
<1>3. CASE Added(t)
  <2>0. s \in Suspensions /\ ag[t].i + 1 \in Nat \ {0}
    BY <1>3, SuspShape DEF Added, SuspPCs
  <2>1. Registering(s, ag[t].i + 1) \in AgentStates
    BY <2>0 DEF AgentStates, Registering
  <2> QED
    BY <1>3, <2>1 DEF Added, SuspTypeOK
<1>4. CASE AddTimer(t)
  BY <1>4, AgentShape, ReturnState DEF AddTimer, SuspTypeOK, SuspPCs
<1>5. CASE Resume(t)
  <2>1. ag[t].ret \in AgentStates /\ [pc |-> "commit", s |-> s, ret |-> ag[t].ret] \in AgentStates
    BY <1>5, AgentShape, ReturnState DEF Resume, AgentStates, SuspPCs
  <2>2. ag' = [ag EXCEPT ![t] = ag[t].ret] \/ ag' = [ag EXCEPT ![t] = [pc |-> "commit", s |-> s, ret |-> ag[t].ret]]
    BY <1>5, AgentShape, ReturnState DEF Resume
  <2> QED
    BY <1>5, <2>1, <2>2 DEF Resume, SuspTypeOK
<1>6. CASE Commit(t)
  <2>1. ag[t].ret \in AgentStates /\ [pc |-> "undo", s |-> s, ret |-> ag[t].ret] \in AgentStates
        /\ s \in Suspensions /\ Owner(s) \in Coros
    BY <1>6, WaitsTyped, AgentShape, ReturnState DEF Commit, AgentStates, SuspPCs
  <2>2. ag' = [ag EXCEPT ![t] = ag[t].ret] \/ ag' = [ag EXCEPT ![t] = [pc |-> "undo", s |-> s, ret |-> ag[t].ret]]
    BY <1>6, AgentShape, ReturnState DEF Commit
  <2>3. handles' = handles \/ PushHandle(Owner(s))
    BY <1>6 DEF Commit
  <2>4. handles' \in [Coros -> Nat]
    BY <2>1, <2>3, PushTyped
  <2>5. /\ consumed' = consumed \/ consumed' = [consumed EXCEPT ![s] = TRUE]
        /\ counter' = counter \/ counter' = [counter EXCEPT ![s] = @ - 1]
    BY <1>6 DEF Commit
  <2>6. consumed' \in [Suspensions -> BOOLEAN]
    BY <2>1, <2>5 DEF SuspTypeOK
  <2>7. counter' \in [Suspensions -> Int]
    BY <2>1, <2>5 DEF SuspTypeOK
  <2> QED
    BY <1>6, <2>1, <2>2, <2>4, <2>6, <2>7 DEF Commit, SuspTypeOK
<1>7. CASE Undo(t)
  <2>1. s \in Suspensions /\ ag[t].ret \in AgentStates
    BY <1>7, AgentShape, ReturnState DEF Undo, SuspPCs
  <2>2. counter' \in [Suspensions -> Int]
    BY <1>7, <2>1 DEF Undo, SuspTypeOK
  <2> QED
    BY <1>7, <2>1, <2>2 DEF Undo, SuspTypeOK
<1>8. CASE Error(t)
  <2>1. [pc |-> "consume", s |-> s] \in AgentStates /\ s \in Suspensions /\ Owner(s) \in Coros
    BY <1>8, WaitsTyped, AgentShape, ReturnState DEF Error, AgentStates, SuspPCs
  <2>2. ag' = [ag EXCEPT ![t] = Idle] \/ ag' = [ag EXCEPT ![t] = [pc |-> "consume", s |-> s]]
    BY <1>8 DEF Error
  <2>3. handles' = handles \/ PushHandle(Owner(s))
    BY <1>8 DEF Error
  <2>4. handles' \in [Coros -> Nat]
    BY <2>1, <2>3, PushTyped
  <2>5. consumed' \in [Suspensions -> BOOLEAN]
    BY <1>8, <2>1 DEF Error, SuspTypeOK
  <2> QED
    BY <1>8, <2>1, <2>2, <2>4, <2>5, ReturnState, ZenonT(40) DEF Error, SuspTypeOK
<1>9. CASE Consume(t)
  <2>1. s \in Suspensions /\ Owner(s) \in Coros
    BY <1>9, WaitsTyped, AgentShape, ReturnState DEF Consume, SuspPCs
  <2> QED
    BY <1>9, <2>1, ReturnState DEF Consume, PushHandle, SuspTypeOK
<1>10. CASE NotifyLock(t)
  <2>1. Notifying(e) \in AgentStates
    BY <1>10, AgentShape, ReturnState DEF NotifyLock, Notifying, AgentStates
  <2> QED
    BY <1>10, <2>1 DEF NotifyLock, SuspTypeOK
<1>11. CASE Notify(t)
  <2>1. e \in Events /\ watchers[e] \in Seq(Suspensions)
    BY <1>11, AgentShape, ReturnState DEF Notify, SuspTypeOK
  <2>2. CASE watchers[e] # <<>>
    <3>1. Head(watchers[e]) \in Suspensions /\ Tail(watchers[e]) \in Seq(Suspensions)
      BY <2>1, <2>2
    <3>2. Resuming(Head(watchers[e]), Notifying(e)) \in AgentStates
      BY <2>1, <3>1 DEF Resuming, Notifying, AgentStates, Returns
    <3> QED
      BY <1>11, <2>1, <2>2, <3>1, <3>2, ZenonT(40) DEF Notify, SuspTypeOK
  <2>3. CASE watchers[e] = <<>>
    BY <1>11, <2>1, <2>3, ReturnState DEF Notify, SuspTypeOK
  <2> QED
    BY <2>2, <2>3
<1>12. CASE Unnotify(t)
  <2>1. counter' \in [Suspensions -> Int]
    BY <1>12 DEF Unnotify, SuspTypeOK
  <2> QED
    BY <1>12, <2>1, ReturnState DEF Unnotify, SuspTypeOK
<1>13. CASE AbortLoad(t)
  <2>0. ag[t].c \in Coros /\ (ckpt[ag[t].c] # 0 => <<ag[t].c, ckpt[ag[t].c]>> \in Suspensions)
    <3>1. ag[t].c \in Coros
      BY <1>13, AgentShape DEF AbortLoad
    <3>2. ckpt[ag[t].c] \in 0..MaxWaits
      BY <3>1 DEF SuspTypeOK
    <3> QED
      BY <3>1, <3>2, ProgramsAssumption DEF Suspensions
  <2>1. ckpt[ag[t].c] # 0 => [pc |-> "error", s |-> <<ag[t].c, ckpt[ag[t].c]>>] \in AgentStates
    BY <2>0 DEF AgentStates
  <2> QED
    BY <1>13, <2>1, ReturnState DEF AbortLoad, SuspTypeOK
<1> HIDE DEF s, e
<1> QED
  BY <1>1, <1>2, <1>3, <1>4, <1>5, <1>6, <1>7, <1>8, <1>9, <1>10, <1>11, <1>12, <1>13 DEF Continue

LEMMA AwaitTyped ==
  ASSUME SuspTypeOK, UNCHANGED program, NEW t \in Agents, NEW l \in program.waits, NEW tm \in BOOLEAN,
         Await(t, l, tm)
  PROVE  SuspTypeOK'
<1> DEFINE c == ag[t].c
           k == waits[c] + 1
           s == <<c, k>>
<1>1. c \in Coros /\ k \in 1..MaxWaits /\ s \in Suspensions /\ l \in Seq(Events) /\ Len(l) \in Nat
  <2>0. c \in Coros /\ k <= program.max
    BY AgentShape DEF Await, At
  <2>1. waits[c] \in Nat
    BY <2>0 DEF SuspTypeOK
  <2> QED
    BY <2>0, <2>1, WaitsTyped DEF Suspensions
<1>2. waits' \in [Coros -> 0..MaxWaits]
  BY <1>1, WaitsTyped DEF Await, SuspTypeOK
<1>3. events' \in [Suspensions -> program.waits \cup {<<>>}]
  BY <1>1 DEF Await, SuspTypeOK
<1>4. counter' \in [Suspensions -> Int]
  BY <1>1 DEF Await, SuspTypeOK
<1>5. timed' \in [Suspensions -> BOOLEAN] /\ linked' \in [Suspensions -> BOOLEAN] /\ hasCkpt' \in [Coros -> BOOLEAN]
  BY <1>1 DEF Await, SuspTypeOK
<1>6. ckpt' \in [Coros -> 0..MaxWaits]
  BY <1>1, WaitsTyped DEF Await, SuspTypeOK
<1>7. ag' \in [Agents -> AgentStates]
  <2>1. [pc |-> "checkpoint", s |-> s] \in AgentStates /\ Registering(s, 1) \in AgentStates
    BY <1>1 DEF AgentStates, Registering
  <2> QED
    BY <2>1 DEF Await, Become, SuspTypeOK
<1> QED
  BY <1>2, <1>3, <1>4, <1>5, <1>6, <1>7 DEF Await, SuspTypeOK, eventVars

\* The other steps of an agent.
LEMMA OuterTyped ==
  ASSUME SuspTypeOK, UNCHANGED program, NEW t \in Agents,
         \/ Finish(t) \/ YieldOther(t)
         \/ \E c \in Coros : RunCoro(t, c) \/ Abort(t, c)
         \/ \E e \in Events : Set(t, e) \/ Clear(t, e)
         \/ \E s \in Suspensions : RunTimer(t, s)
  PROVE  SuspTypeOK'
<1> USE ReturnState DEF At, Become, eventVars, suspVars, tokenVars, ckptVars
<1>1. CASE Finish(t)
  <2>1. ag[t].c \in Coros
    BY <1>1, AgentShape DEF Finish
  <2> QED
    BY <1>1, <2>1 DEF Finish, SuspTypeOK
<1>2. CASE YieldOther(t)
  <2>1. ag[t].c \in Coros
    BY <1>2, AgentShape DEF YieldOther
  <2>2. handles' \in [Coros -> Nat]
    BY <1>2, <2>1, PushTyped DEF YieldOther
  <2> QED
    BY <1>2, <2>2 DEF YieldOther, SuspTypeOK
<1>3. ASSUME NEW c \in Coros, RunCoro(t, c) PROVE SuspTypeOK'
  <2>1. [pc |-> "running", c |-> c] \in AgentStates
    BY DEF AgentStates
  <2>2. handles' \in [Coros -> Nat]
    BY <1>3 DEF RunCoro, SuspTypeOK
  <2> QED
    BY <1>3, <2>1, <2>2 DEF RunCoro, SuspTypeOK
<1>4. ASSUME NEW c \in Coros, Abort(t, c) PROVE SuspTypeOK'
  <2>1. [pc |-> "abort", c |-> c] \in AgentStates
    BY DEF AgentStates
  <2>2. aborted' \in [Coros -> BOOLEAN]
    BY <1>4 DEF Abort, SuspTypeOK
  <2> QED
    BY <1>4, <2>1, <2>2 DEF Abort, SuspTypeOK
<1>5. ASSUME NEW e \in Events, Set(t, e) \/ Clear(t, e) PROVE SuspTypeOK'
  <2>1. [pc |-> "notify_lock", e |-> e] \in AgentStates /\ [pc |-> "unnotify", e |-> e] \in AgentStates
    BY DEF AgentStates
  <2> QED
    BY <1>5, <2>1 DEF Set, Clear, SuspTypeOK
<1>6. ASSUME NEW s \in Suspensions, RunTimer(t, s) PROVE SuspTypeOK'
  <2>1. Resuming(s, Idle) \in AgentStates
    BY DEF AgentStates, Returns, Resuming
  <2> QED
    BY <1>6, <2>1 DEF RunTimer, SuspTypeOK
<1> QED
  BY <1>1, <1>2, <1>3, <1>4, <1>5, <1>6

LEMMA SuspTypeStep == SuspTypeOK /\ [SuspNext]_suspensionVars => SuspTypeOK'
<1> SUFFICES ASSUME SuspTypeOK, [SuspNext]_suspensionVars PROVE SuspTypeOK'
  OBVIOUS
<1>1. ASSUME NEW t \in Agents, Step(t), UNCHANGED program PROVE SuspTypeOK'
  BY <1>1, ContinueTyped, AwaitTyped, OuterTyped, Zenon DEF Step, DriveCoro
<1>2. CASE UNCHANGED suspensionVars
  BY <1>2 DEF suspensionVars, SuspTypeOK, eventVars, suspVars, tokenVars, ckptVars
<1> QED
  BY <1>1, <1>2 DEF SuspNext, Rest

\* What is known of events, suspensions, coroutines and of the call each thread is in
\* (events.rs, handles.rs) is always of its type.
THEOREM SuspensionTyped == SuspSpec => []SuspTypeOK
<1>1. SuspInit => SuspTypeOK
  BY SuspTypeInit
<1>2. SuspTypeOK /\ [SuspNext]_suspensionVars => SuspTypeOK'
  BY SuspTypeStep
<1> QED
  BY <1>1, <1>2, PTL DEF SuspSpec

-----------------------------------------------------------------------------
\* Steps that make no suspension: what they keep.

Steady(t) ==
  /\ UNCHANGED <<program, waits, events, timed, linked, ckpt, hasCkpt>>
  /\ \A c \in Coros : (aborted[c] => aborted'[c]) /\ (aborted'[c] => aborted[c] \/ c \in program.aborts)
  /\ \A u \in Agents : u # t => ag'[u] = ag[u]

LEMMA SteadyFacts ==
  ASSUME SuspTypeOK, NEW t \in Agents, Steady(t)
  PROVE  /\ \A s \in Suspensions : /\ Made(s)' <=> Made(s)
                                   /\ Multi(s)' <=> Multi(s)
                                   /\ Uncleared(s)' <=> Uncleared(s)
                                   /\ Aborted(s) => Aborted(s)'
         /\ \A c \in Coros : (Spoilt(c) => Spoilt(c)') /\ (Calm(c)' => Calm(c))
<1>1. \A s \in Suspensions : Owner(s) \in Coros
  BY DEF Owner, Suspensions
<1> QED
  BY <1>1 DEF Steady, Made, Multi, Uncleared, Aborted, Spoilt, Calm, OnlySingle, Owner

LEMMA FreshKept ==
  ASSUME SuspInv, NEW t \in Agents, Steady(t), ag'[t].pc \in SuspPCs => Made(ag'[t].s),
         \A s \in Suspensions : ~Made(s) =>
           ~consumed'[s] /\ s \notin timers' /\ \A e \in Events : ~Queued(s, e)'
  PROVE  FreshSusp'
  BY SteadyFacts DEF SuspInv, FreshSusp, Steady

LEMMA KnowKept ==
  ASSUME SuspInv, NEW t \in Agents, Steady(t), AgentKnows(t)'
  PROVE  AgentsKnow' /\ CkptFollows'
<1>1. ASSUME NEW u \in Agents, u # t PROVE AgentKnows(u)'
  <2>1. AgentKnows(u) /\ ag'[u] = ag[u] /\ events' = events /\ program' = program
    BY <1>1 DEF SuspInv, AgentsKnow, Steady
  <2>2. /\ ag[u].pc \in SuspPCs => Owner(ag[u].s) \in Coros
        /\ ag[u].pc = "abort" => ag[u].c \in Coros
    BY AgentShape, SuspShape DEF SuspInv
  <2>3. linked' = linked /\ hasCkpt' = hasCkpt /\ \A c \in Coros : aborted[c] => aborted'[c]
    BY DEF Steady
  <2> QED
    BY <2>1, <2>2, <2>3 DEF AgentKnows, SuspPCs, Aborted, Multi, Spoilt, Owner
<1>2. CkptFollows'
  BY DEF SuspInv, CkptFollows, Steady, Current
<1> QED
  BY <1>1, <1>2 DEF AgentsKnow

LEMMA OthersHold ==
  ASSUME NEW t \in Agents, Steady(t), NEW u \in Agents, u # t, NEW s, NEW i
  PROVE  Holding(u, s, i)' <=> Holding(u, s, i)
  BY DEF Steady, Holding

SameHolding(t) ==
  \A s \in Suspensions : \A i \in 1..Len(events[s]) : Holding(t, s, i)' <=> Holding(t, s, i)

SameDue == \A s \in Suspensions : Due(s)' = Due(s)

LEMMA QueueKept ==
  ASSUME SuspInv, NEW t \in Agents, Steady(t), watchers' = watchers
  PROVE  QueuedOnce'
<1>1. QueuedOnce /\ events' = events
  BY DEF SuspInv, Steady
<1> QED
  BY <1>1 DEF QueuedOnce, WaitsFor

LEMMA PlaceKept ==
  ASSUME SuspInv, NEW t \in Agents, Steady(t), watchers' = watchers, SameHolding(t)
  PROVE  OnePlace' /\ QueuedOnce' /\ SameDue
<1>1. \A u \in Agents, s \in Suspensions : \A i \in 1..Len(events[s]) : Holding(u, s, i)' <=> Holding(u, s, i)
  BY OthersHold DEF SameHolding
<1>2. events' = events /\ \A s, e : Queued(s, e)' <=> Queued(s, e)
  BY DEF Steady, Queued
<1>3. OnePlace'
  BY <1>1, <1>2 DEF SuspInv, OnePlace
<1>4. QueuedOnce'
  BY QueueKept
<1>5. SameDue
  BY <1>1, <1>2 DEF SameDue, Due
<1> QED
  BY <1>3, <1>4, <1>5

LEMMA CountKept ==
  ASSUME SuspInv, NEW t \in Agents, Steady(t), SameDue, counter' = counter
  PROVE  Countdown'
<1>1. \A s \in Suspensions : Owner(s) \in Coros
  BY DEF Owner, Suspensions
<1> QED
  BY <1>1, SteadyFacts DEF SuspInv, Countdown, SameDue, Owner

LEMMA SingleKept ==
  ASSUME SuspInv, NEW t \in Agents, Steady(t), SameDue,
         \A s \in Suspensions : consumed[s] => consumed'[s],
         \A s \in Suspensions :
           /\ ag[t].pc \in {"checkpoint", "resume", "commit"} /\ ag[t].s = s /\ events[s] = <<>>
           /\ ~consumed'[s] /\ ~Aborted(s)'
           => ag'[t].pc \in {"checkpoint", "resume", "commit"} /\ ag'[t].s = s
  PROVE  SingleDue'
<1> SUFFICES ASSUME NEW s \in Suspensions, Made(s)', ~Multi(s)', ~consumed'[s], ~Aborted(s)'
             PROVE  IF events'[s] = <<>>
                      THEN \E u \in Agents : ag'[u].pc \in {"checkpoint", "resume", "commit"} /\ ag'[u].s = s
                      ELSE 1 \in Due(s)'
  BY DEF SingleDue
<1>1. Made(s) /\ ~Multi(s) /\ ~consumed[s] /\ ~Aborted(s)
  BY SteadyFacts DEF SuspInv
<1>2. events' = events /\ \A u \in Agents : u # t => ag'[u] = ag[u]
  BY DEF Steady
<1>3. CASE events[s] = <<>>
  <2>1. PICK u \in Agents : ag[u].pc \in {"checkpoint", "resume", "commit"} /\ ag[u].s = s
    BY <1>1, <1>3 DEF SuspInv, SingleDue
  <2>2. ag'[u].pc \in {"checkpoint", "resume", "commit"} /\ ag'[u].s = s
    BY <1>2, <1>3, <2>1
  <2> QED
    BY <1>2, <1>3, <2>2
<1>4. CASE events[s] # <<>>
  BY <1>1, <1>2, <1>4 DEF SuspInv, SingleDue, SameDue
<1> QED
  BY <1>3, <1>4

LEMMA NotifiedKept ==
  ASSUME SuspInv, NEW t \in Agents, Steady(t), watchers' = watchers,
         \A e \in Events : /\ Notifier(t, e) => Notifier(t, e)' \/ watchers[e] = <<>>
                           /\ flag'[e] /\ ~flag[e] => Notifier(t, e)'
  PROVE  SetIsNotified'
<1>1. \A u \in Agents, e \in Events : u # t => (Notifier(u, e)' <=> Notifier(u, e))
  BY DEF Steady, Notifier
<1> QED
  BY <1>1 DEF SuspInv, SetIsNotified

LEMMA TokenKept ==
  ASSUME SuspInv, NEW t \in Agents, Steady(t), UNCHANGED <<handles, finished>>,
         \A s \in Suspensions : Open(s)' <=> Open(s),
         \A c \in Coros : Drives(t, c)' <=> Drives(t, c)
  PROVE  OneToken'
<1>1. \A u \in Agents, c \in Coros : Drives(u, c)' <=> Drives(u, c)
  BY DEF Steady, Drives
<1>2. \A c \in Coros : Driven(c)' <=> Driven(c)
  BY <1>1 DEF Driven
<1>3. \A c \in Coros : Awaits(c)' <=> Awaits(c)
  <2>1. waits' = waits /\ \A c \in Coros : waits[c] > 0 => Current(c) \in Suspensions
    BY ProgramsAssumption DEF Steady, SuspInv, SuspTypeOK, Current, Suspensions
  <2> QED
    BY <2>1 DEF Awaits, Current
<1>4. \A c \in Coros : \A k \in 1..MaxWaits : <<c, k>> \in Suspensions
  BY DEF Suspensions
<1> QED
  BY <1>1, <1>2, <1>3, <1>4, SteadyFacts DEF SuspInv, OneToken, Steady

\* A step of an agent inside a call, or into or out of it, that leaves the tokens alone.
LEMMA QuietKept ==
  ASSUME SuspInv, SuspTypeOK', NEW t \in Agents, Steady(t), SameHolding(t), AgentKnows(t)',
         UNCHANGED <<watchers, consumed, counter, handles, finished>>,
         timers' \subseteq timers \cup {s \in Suspensions : timed[s]},
         ag'[t].pc \in SuspPCs => Made(ag'[t].s),
         ag[t].pc # "running", ag'[t].pc # "running",
         \A s \in Suspensions :
           /\ ag[t].pc \in {"checkpoint", "resume", "commit"} /\ ag[t].s = s /\ events[s] = <<>>
           /\ ~consumed'[s] /\ ~Aborted(s)'
           => ag'[t].pc \in {"checkpoint", "resume", "commit"} /\ ag'[t].s = s,
         \A e \in Events : /\ Notifier(t, e) => Notifier(t, e)' \/ watchers[e] = <<>>
                           /\ flag'[e] /\ ~flag[e] => Notifier(t, e)'
  PROVE  SuspInv'
<1>1. FreshSusp'
  <2>1. \A s \in Suspensions : ~Made(s) => ~timed[s] /\ s \notin timers'
    BY DEF SuspInv, FreshSusp, TimersSingle
  <2>2. \A s, e : Queued(s, e)' <=> Queued(s, e)
    BY DEF Queued
  <2> QED
    BY <2>1, <2>2, FreshKept DEF SuspInv, FreshSusp
<1>2. AgentsKnow' /\ CkptFollows'
  BY KnowKept
<1>3. TimersSingle'
  BY DEF SuspInv, TimersSingle, Steady
<1>4. OnePlace' /\ QueuedOnce' /\ SameDue
  BY PlaceKept
<1>5. Countdown'
  BY <1>4, CountKept
<1>6. SingleDue'
  BY <1>4, SingleKept
<1>7. SetIsNotified'
  BY NotifiedKept
<1>8. OneToken'
  <2>1. \A s \in Suspensions : Open(s)' <=> Open(s)
    BY SteadyFacts DEF Open, SuspInv
  <2> QED
    BY <2>1, TokenKept DEF Drives
<1> QED
  BY <1>1, <1>2, <1>3, <1>4, <1>5, <1>6, <1>7, <1>8 DEF SuspInv

LEMMA BecomeFacts ==
  ASSUME SuspTypeOK, NEW t \in Agents, NEW r, Become(t, r)
  PROVE  ag'[t] = r /\ \A u \in Agents : u # t => ag'[u] = ag[u]
  BY DEF SuspTypeOK, Become

LEMMA ReferredMade ==
  ASSUME SuspInv, NEW t \in Agents, ag[t].pc \in SuspPCs
  PROVE  Made(ag[t].s)
  BY SuspShape DEF SuspInv, FreshSusp

\* Set, Clear, RunTimer and Abort begin at an agent that is idle.
LEMMA BeginKept ==
  ASSUME SuspInv, SuspTypeOK', UNCHANGED program, NEW t \in Agents,
         \/ \E e \in Events : Set(t, e) \/ Clear(t, e)
         \/ \E s \in Suspensions : RunTimer(t, s)
         \/ \E c \in Coros : Abort(t, c)
  PROVE  SuspInv'
<1> USE DEF At, eventVars, suspVars, tokenVars, ckptVars
<1>0. SuspTypeOK
  BY DEF SuspInv
<1>1. ASSUME NEW e \in Events, Set(t, e) PROVE SuspInv'
  <2>1. ag[t].pc = "idle" /\ ag'[t] = [pc |-> "notify_lock", e |-> e] /\ Steady(t)
    BY <1>0, <1>1, BecomeFacts DEF Set, Steady
  <2>2. SameHolding(t) /\ AgentKnows(t)'
    BY <2>1 DEF SameHolding, Holding, SuspPCs, AgentKnows
  <2>3. UNCHANGED <<watchers, consumed, counter, handles, finished, timers>>
    BY <1>1 DEF Set
  <2>4. \A x \in Events : /\ ~Notifier(t, x)
                          /\ flag'[x] /\ ~flag[x] => Notifier(t, x)'
    BY <1>0, <1>1, <2>1 DEF Notifier, Set, SuspTypeOK
  <2> QED
    BY <2>1, <2>2, <2>3, <2>4, QuietKept DEF SuspPCs
<1>2. ASSUME NEW e \in Events, Clear(t, e) PROVE SuspInv'
  <2>1. ag[t].pc = "idle" /\ ag'[t] = [pc |-> "unnotify", e |-> e] /\ Steady(t) /\ e \in program'.clears
    BY <1>0, <1>2, BecomeFacts DEF Clear, Steady
  <2>2. SameHolding(t) /\ AgentKnows(t)'
    BY <2>1 DEF SameHolding, Holding, SuspPCs, AgentKnows
  <2>3. UNCHANGED <<watchers, consumed, counter, handles, finished, timers>>
    BY <1>2 DEF Clear
  <2>4. \A x \in Events : ~Notifier(t, x) /\ (flag'[x] => flag[x])
    BY <1>0, <1>2, <2>1 DEF Notifier, Clear, SuspTypeOK
  <2> QED
    BY <2>1, <2>2, <2>3, <2>4, QuietKept DEF SuspPCs
<1>3. ASSUME NEW s \in Suspensions, RunTimer(t, s) PROVE SuspInv'
  <2>1. /\ ag[t].pc = "idle" /\ ag'[t] = [pc |-> "resume", s |-> s, ret |-> Idle] /\ Steady(t)
        /\ timers' \subseteq timers
    BY <1>0, <1>3, BecomeFacts DEF RunTimer, Steady, Resuming
  <2>2. Len(events'[s]) = 1 /\ Made(s)
    BY <1>3, <2>1 DEF RunTimer, SuspInv, TimersSingle, FreshSusp, Steady
  <2>3. SameHolding(t)
    BY <2>1 DEF SameHolding, Holding, SuspPCs, Idle
  <2>6. AgentKnows(t)'
    <3>1. ag'[t].pc = "resume" /\ ag'[t].s = s /\ ag'[t].ret.pc = "idle"
      BY <2>1 DEF Idle
    <3>2. Len(events'[s]) <= 1
      BY <2>2
    <3>3. Len(events'[ag'[t].s]) <= 1
      BY <3>1, <3>2, Zenon
    <3> QED
      BY <3>1, <3>3, Zenon DEF AgentKnows
  <2>4. UNCHANGED <<watchers, consumed, counter, handles, finished, flag>>
    BY <1>3 DEF RunTimer
  <2>5. \A x \in Events : ~Notifier(t, x)
    BY <2>1 DEF Notifier
  <2> QED
    BY <2>1, <2>2, <2>3, <2>4, <2>5, <2>6, QuietKept
<1>4. ASSUME NEW c \in Coros, Abort(t, c) PROVE SuspInv'
  <2>1. ag[t].pc = "idle" /\ ag'[t] = [pc |-> "abort", c |-> c] /\ Steady(t) /\ aborted'[c]
    BY <1>0, <1>4, BecomeFacts DEF Abort, Steady, SuspTypeOK
  <2>2. SameHolding(t) /\ AgentKnows(t)'
    BY <2>1 DEF SameHolding, Holding, SuspPCs, AgentKnows
  <2>3. UNCHANGED <<watchers, consumed, counter, handles, finished, timers, flag>>
    BY <1>4 DEF Abort
  <2>4. \A x \in Events : ~Notifier(t, x)
    BY <2>1 DEF Notifier
  <2> QED
    BY <2>1, <2>2, <2>3, <2>4, QuietKept DEF SuspPCs
<1> QED
  BY <1>1, <1>2, <1>3, <1>4

\* Checkpoint, Added, AddTimer, NotifyLock and AbortLoad.
LEMMA MiddleKept ==
  ASSUME SuspInv, SuspTypeOK', UNCHANGED program, NEW t \in Agents,
         Checkpoint(t) \/ Added(t) \/ AddTimer(t) \/ NotifyLock(t) \/ AbortLoad(t)
  PROVE  SuspInv'
<1> USE DEF At, eventVars, suspVars, tokenVars, ckptVars
<1>0. SuspTypeOK /\ AgentKnows(t)
  BY DEF SuspInv, AgentsKnow
<1>1. CASE Checkpoint(t)
  <2> DEFINE s == ag[t].s
  <2>1. /\ ag[t].pc = "checkpoint" /\ Steady(t) /\ UNCHANGED <<watchers, consumed, counter, handles, finished, timers, flag, aborted>>
        /\ \/ ag'[t] = [pc |-> "error", s |-> s] /\ Aborted(s)
           \/ ag'[t] = [pc |-> "resume", s |-> s, ret |-> Idle]
    BY <1>0, <1>1, BecomeFacts DEF Checkpoint, Steady, Resuming
  <2>2. s \in Suspensions /\ events[s] = <<>> /\ Made(s)
    BY <1>0, <2>1, SuspShape, ReferredMade DEF SuspPCs, AgentKnows
  <2>3. events' = events /\ linked' = linked /\ (Aborted(s)' <=> Aborted(s))
    BY <2>1, <2>2 DEF Steady, Aborted
  <2>4. SameHolding(t)
    BY <2>1 DEF SameHolding, Holding, SuspPCs, Idle
  <2>5. AgentKnows(t)'
    BY <2>1, <2>2, <2>3 DEF AgentKnows, Aborted, Idle
  <2>6. \A x \in Events : ~Notifier(t, x)
    BY <2>1 DEF Notifier
  <2>7. ag'[t].pc \in {"checkpoint", "resume", "commit"} \/ Aborted(s)'
    BY <2>1, <2>3
  <2>8. ag'[t].s = s /\ ag'[t].pc # "running" /\ ag[t].pc # "running"
    BY <2>1
  <2> QED
    BY <2>1, <2>2, <2>4, <2>5, <2>6, <2>7, <2>8, QuietKept
<1>2. CASE Added(t)
  <2> DEFINE s == ag[t].s
             i == ag[t].i
  <2>1. /\ ag[t].pc = "added" /\ Steady(t) /\ UNCHANGED <<watchers, consumed, counter, handles, finished, timers, flag>>
        /\ ag'[t] = [pc |-> "register", s |-> s, i |-> i + 1]
    BY <1>0, <1>2, BecomeFacts DEF Added, Steady, Registering
  <2>2. s \in Suspensions /\ events[s] \in Seq(Events) /\ i \in 1..Len(events[s]) /\ Made(s) /\ events' = events
    BY <1>0, <2>1, SuspShape, ReferredMade, WaitsTyped DEF SuspPCs, AgentKnows, Steady
  <2>4. SameHolding(t)
    BY <2>1, <2>2 DEF SameHolding, Holding, SuspPCs
  <2>5. AgentKnows(t)'
    BY <2>1, <2>2 DEF AgentKnows
  <2>6. \A x \in Events : ~Notifier(t, x)
    BY <2>1 DEF Notifier
  <2>7. ag'[t].s = s /\ ag'[t].pc # "running" /\ ag[t].pc # "running" /\ ag[t].pc \notin {"checkpoint", "resume", "commit"}
    BY <2>1
  <2> QED
    BY <2>1, <2>2, <2>4, <2>5, <2>6, <2>7, QuietKept
<1>3. CASE AddTimer(t)
  <2> DEFINE s == ag[t].s
  <2>1. /\ ag[t].pc = "register" /\ Steady(t) /\ UNCHANGED <<watchers, consumed, counter, handles, finished, flag>>
        /\ ag'[t] = Idle /\ ag[t].i > Len(events[s])
    BY <1>0, <1>3, BecomeFacts DEF AddTimer, Steady
  <2>2. s \in Suspensions /\ ag[t].i \in Nat \ {0} /\ events[s] \in Seq(Events)
    BY <1>0, <2>1, SuspShape, WaitsTyped DEF SuspPCs
  <2>3. timers' \subseteq timers \cup {x \in Suspensions : timed[x]}
    BY <1>3, <2>2 DEF AddTimer
  <2>4. SameHolding(t) /\ AgentKnows(t)'
    BY <2>1, <2>2 DEF SameHolding, Holding, SuspPCs, AgentKnows, Idle
  <2>6. \A x \in Events : ~Notifier(t, x)
    BY <2>1 DEF Notifier
  <2>7. ag'[t].pc = "idle" /\ ag[t].pc # "running" /\ ag[t].pc \notin {"checkpoint", "resume", "commit"}
    BY <2>1 DEF Idle
  <2> QED
    BY <2>1, <2>3, <2>4, <2>6, <2>7, QuietKept DEF SuspPCs
<1>4. CASE NotifyLock(t)
  <2>1. /\ ag[t].pc = "notify_lock" /\ Steady(t) /\ UNCHANGED <<watchers, consumed, counter, handles, finished, timers, flag>>
        /\ ag'[t] = [pc |-> "notify", e |-> ag[t].e]
    BY <1>0, <1>4, BecomeFacts DEF NotifyLock, Steady, Notifying
  <2>2. SameHolding(t) /\ AgentKnows(t)'
    BY <2>1 DEF SameHolding, Holding, SuspPCs, AgentKnows
  <2>3. \A x \in Events : Notifier(t, x) => Notifier(t, x)'
    BY <2>1 DEF Notifier
  <2> QED
    BY <2>1, <2>2, <2>3, QuietKept DEF SuspPCs
<1>5. CASE AbortLoad(t)
  <2> DEFINE c == ag[t].c
  <2>1. /\ ag[t].pc = "abort" /\ Steady(t) /\ UNCHANGED <<watchers, consumed, counter, handles, finished, timers, flag, aborted>>
        /\ c \in Coros /\ aborted[c]
        /\ \/ ag'[t] = Idle
           \/ ag'[t] = [pc |-> "error", s |-> <<c, ckpt[c]>>] /\ ckpt[c] # 0
    BY <1>0, <1>5, BecomeFacts, AgentShape DEF AbortLoad, Steady, AgentKnows
  <2>2. CASE ag'[t] = Idle
    <3>1. SameHolding(t) /\ AgentKnows(t)'
      BY <2>1, <2>2 DEF SameHolding, Holding, SuspPCs, AgentKnows, Idle
    <3>2. \A x \in Events : ~Notifier(t, x)
      BY <2>1 DEF Notifier
    <3>3. ag'[t].pc = "idle"
      BY <2>2 DEF Idle
    <3> QED
      BY <2>1, <3>1, <3>2, <3>3, QuietKept DEF SuspPCs
  <2>3. CASE ag'[t] = [pc |-> "error", s |-> <<c, ckpt[c]>>] /\ ckpt[c] # 0
    <3>0. hasCkpt[c] /\ ckpt[c] = waits[c] /\ linked[<<c, ckpt[c]>>] /\ waits[c] \in Nat
      <4>1. hasCkpt[c] /\ ckpt[c] = waits[c] /\ linked[Current(c)]
        BY <2>1, <2>3 DEF SuspInv, CkptFollows
      <4>2. waits[c] \in Nat
        BY <1>0, <2>1 DEF SuspTypeOK
      <4> QED
        BY <4>1, <4>2 DEF Current
    <3>1. Made(<<c, ckpt[c]>>)
      BY <3>0 DEF Made, Owner
    <3>2. AgentKnows(t)'
      <4>1. linked' = linked /\ aborted' = aborted
        BY <2>1 DEF Steady
      <4> QED
        BY <2>1, <2>3, <3>0, <4>1 DEF AgentKnows, Aborted, Owner
    <3>3. SameHolding(t)
      BY <2>1, <2>3 DEF SameHolding, Holding, SuspPCs
    <3>4. \A x \in Events : ~Notifier(t, x)
      BY <2>1 DEF Notifier
    <3> QED
      BY <2>1, <2>3, <3>1, <3>2, <3>3, <3>4, QuietKept DEF SuspPCs
  <2> QED
    BY <2>1, <2>2, <2>3
<1> QED
  BY <1>1, <1>2, <1>3, <1>4, <1>5

\* The waker that finds its event set, the resume that goes on, the end of notify, and the
\* abort of a wait for several events.
LEMMA InsideKept ==
  ASSUME SuspInv, SuspTypeOK', UNCHANGED program, NEW t \in Agents,
         \/ AddWaker(t) /\ flag[events[ag[t].s][ag[t].i]]
         \/ Resume(t) /\ ~Aborted(ag[t].s)
         \/ Notify(t) /\ watchers[ag[t].e] = <<>>
         \/ Error(t) /\ Multi(ag[t].s)
  PROVE  SuspInv'
<1> USE DEF At, eventVars, suspVars, tokenVars, ckptVars
<1>0. SuspTypeOK /\ AgentKnows(t)
  BY DEF SuspInv, AgentsKnow
<1> DEFINE s == ag[t].s
           i == ag[t].i
<1>1. CASE AddWaker(t) /\ flag[events[s][i]]
  <2>1. /\ ag[t].pc = "register" /\ Steady(t) /\ UNCHANGED <<watchers, consumed, counter, handles, finished, timers, flag>>
        /\ ag'[t] = [pc |-> "resume", s |-> s, ret |-> [pc |-> "added", s |-> s, i |-> i]]
        /\ i <= Len(events[s])
    BY <1>0, <1>1, BecomeFacts DEF AddWaker, Steady, Resuming
  <2>2. s \in Suspensions /\ events[s] \in Seq(Events) /\ i \in 1..Len(events[s]) /\ Made(s) /\ events' = events
    BY <1>0, <2>1, SuspShape, ReferredMade, WaitsTyped DEF SuspPCs, AgentKnows, Steady
  <2>3. /\ ag'[t].pc = "resume" /\ ag'[t].s = s /\ ag'[t].ret.pc = "added" /\ ag'[t].ret.s = s
        /\ ag'[t].ret.i = i
    BY <2>1
  <2>4. SameHolding(t)
    BY <2>1, <2>2, <2>3 DEF SameHolding, Holding, SuspPCs
  <2>5. AgentKnows(t)'
    BY <2>2, <2>3 DEF AgentKnows
  <2>6. \A x \in Events : ~Notifier(t, x)
    BY <2>1 DEF Notifier
  <2> QED
    BY <2>1, <2>2, <2>3, <2>4, <2>5, <2>6, QuietKept
<1>2. CASE Resume(t) /\ ~Aborted(s)
  <2>1. /\ ag[t].pc = "resume" /\ Steady(t) /\ UNCHANGED <<watchers, consumed, counter, handles, finished, timers, flag>>
        /\ ag'[t] = [pc |-> "commit", s |-> s, ret |-> ag[t].ret]
    <3>1. ag[t].pc = "resume" /\ Become(t, [ag[t] EXCEPT !.pc = "commit"])
      BY <1>2 DEF Resume
    <3>2. Become(t, [pc |-> "commit", s |-> s, ret |-> ag[t].ret])
      BY <1>0, <3>1, AgentShape
    <3> QED
      BY <1>0, <1>2, <3>1, <3>2, BecomeFacts DEF Resume, Steady
  <2>2. s \in Suspensions /\ Made(s) /\ events' = events
    BY <1>0, <2>1, SuspShape, ReferredMade DEF SuspPCs, Steady
  <2>3. ag'[t].pc = "commit" /\ ag'[t].s = s /\ ag'[t].ret = ag[t].ret
    BY <2>1
  <2>4. SameHolding(t)
    BY <2>1, <2>2, <2>3 DEF SameHolding, Holding, SuspPCs
  <2>5. AgentKnows(t)'
    BY <1>0, <2>1, <2>2, <2>3 DEF AgentKnows
  <2>6. \A x \in Events : Notifier(t, x) => Notifier(t, x)'
    BY <2>1, <2>3 DEF Notifier
  <2> QED
    BY <2>1, <2>2, <2>3, <2>4, <2>5, <2>6, QuietKept
<1>3. CASE Notify(t) /\ watchers[ag[t].e] = <<>>
  <2>1. /\ ag[t].pc = "notify" /\ Steady(t) /\ UNCHANGED <<watchers, consumed, counter, handles, finished, timers, flag>>
        /\ ag'[t] = Idle
    BY <1>0, <1>3, BecomeFacts DEF Notify, Steady
  <2>2. SameHolding(t) /\ AgentKnows(t)' /\ ag'[t].pc = "idle"
    BY <2>1 DEF SameHolding, Holding, SuspPCs, AgentKnows, Idle
  <2>3. \A x \in Events : Notifier(t, x) => watchers[x] = <<>>
    BY <1>3, <2>1 DEF Notifier
  <2> QED
    BY <2>1, <2>2, <2>3, QuietKept DEF SuspPCs
<1>4. CASE Error(t) /\ Multi(s)
  <2>1. /\ ag[t].pc = "error" /\ Steady(t) /\ UNCHANGED <<watchers, consumed, counter, handles, finished, timers, flag, aborted>>
        /\ ag'[t] = Idle \/ ag'[t] = [pc |-> "consume", s |-> s]
    BY <1>0, <1>4, BecomeFacts DEF Error, Steady
  <2>2. s \in Suspensions /\ Made(s) /\ events' = events /\ linked' = linked /\ Aborted(s)
    BY <1>0, <2>1, SuspShape, ReferredMade DEF SuspPCs, Steady, AgentKnows
  <2>3. ag'[t].pc = "idle" \/ (ag'[t].pc = "consume" /\ ag'[t].s = s)
    BY <2>1 DEF Idle
  <2>4. SameHolding(t)
    BY <2>1, <2>3 DEF SameHolding, Holding, SuspPCs
  <2>5. AgentKnows(t)'
    BY <1>4, <2>1, <2>2, <2>3 DEF AgentKnows, Aborted, Multi
  <2>6. \A x \in Events : ~Notifier(t, x)
    BY <2>1 DEF Notifier
  <2> QED
    BY <2>1, <2>2, <2>3, <2>4, <2>5, <2>6, QuietKept DEF SuspPCs
<1> HIDE DEF s, i
<1> QED
  BY <1>1, <1>2, <1>3, <1>4 DEF s, i

-----------------------------------------------------------------------------
\* Wakers that change their place.

\* One that has been used.
LEMMA PlaceDropped ==
  ASSUME SuspInv, NEW t \in Agents, Steady(t), watchers' = watchers,
         NEW x \in Suspensions, NEW n \in 1..Len(events[x]), Holding(t, x, n),
         \A s \in Suspensions : \A i \in 1..Len(events[s]) :
           Holding(t, s, i)' <=> Holding(t, s, i) /\ ~(s = x /\ i = n)
  PROVE  /\ OnePlace' /\ QueuedOnce'
         /\ Due(x)' = Due(x) \ {n} /\ n \in Due(x)
         /\ \A s \in Suspensions : s # x => Due(s)' = Due(s)
<1>1. \A u \in Agents, s \in Suspensions : \A i \in 1..Len(events[s]) :
        u # t => (Holding(u, s, i)' <=> Holding(u, s, i))
  BY OthersHold
<1>2. events' = events /\ \A s, e : Queued(s, e)' <=> Queued(s, e)
  BY DEF Steady, Queued
<1>3. OnePlace'
  BY <1>1, <1>2 DEF SuspInv, OnePlace
<1>4. QueuedOnce'
  BY QueueKept
<1>5. \A u \in Agents : Holding(u, x, n) => u = t
  BY DEF SuspInv, OnePlace
<1>6. ~Queued(x, events[x][n])
  BY DEF SuspInv, OnePlace
<1>7. Due(x)' = Due(x) \ {n} /\ n \in Due(x)
  BY <1>1, <1>2, <1>5, <1>6 DEF Due
<1>8. \A s \in Suspensions : s # x => Due(s)' = Due(s)
  BY <1>1, <1>2 DEF Due
<1> QED
  BY <1>3, <1>4, <1>7, <1>8

\* The set of the queued wakers of an event.
LEMMA QueuedContent ==
  ASSUME SuspTypeOK, NEW e \in Events, NEW s
  PROVE  /\ Queued(s, e) <=> s \in Content(watchers[e])
         /\ watchers' \in [Events -> Seq(Suspensions)] => (Queued(s, e)' <=> s \in Content(watchers'[e]))
<1>1. watchers[e] \in Seq(Suspensions)
  BY DEF SuspTypeOK
<1>2. Queued(s, e) <=> s \in Content(watchers[e])
  BY <1>1 DEF Queued, Content
<1>3. ASSUME watchers' \in [Events -> Seq(Suspensions)] PROVE Queued(s, e)' <=> s \in Content(watchers'[e])
  <2>1. watchers'[e] \in Seq(Suspensions)
    BY <1>3
  <2> QED
    BY <2>1 DEF Queued, Content
<1> QED
  BY <1>2, <1>3

Enqueues(x, e) == watchers' = [watchers EXCEPT ![e] = Append(@, x)]
Dequeues(x, e) == watchers[e] # <<>> /\ x = Head(watchers[e]) /\ watchers' = [watchers EXCEPT ![e] = Tail(@)]

\* One that is queued at its event.
LEMMA PlaceQueued ==
  ASSUME SuspInv, SuspTypeOK', NEW t \in Agents, Steady(t),
         NEW x \in Suspensions, NEW n \in 1..Len(events[x]), Holding(t, x, n),
         Enqueues(x, events[x][n]),
         \A s \in Suspensions : \A i \in 1..Len(events[s]) :
           Holding(t, s, i)' <=> Holding(t, s, i) /\ ~(s = x /\ i = n)
  PROVE  /\ OnePlace' /\ QueuedOnce' /\ SameDue
         /\ \A s \in Suspensions, e \in Events :
              Queued(s, e)' <=> Queued(s, e) \/ (s = x /\ e = events[x][n])
<1> DEFINE ev == events[x][n]
           q  == watchers[ev]
<1>0. events[x] \in Seq(Events) /\ ev \in Events /\ watchers \in [Events -> Seq(Suspensions)] /\ q \in Seq(Suspensions)
  <2>1. events[x] \in Seq(Events) /\ watchers \in [Events -> Seq(Suspensions)]
    BY WaitsTyped DEF SuspInv, SuspTypeOK
  <2> QED
    BY <2>1
<1>1. \A u \in Agents, s \in Suspensions : \A i \in 1..Len(events[s]) :
        u # t => (Holding(u, s, i)' <=> Holding(u, s, i))
  BY OthersHold
<1>2. /\ events' = events /\ \A e \in Events : e # ev => watchers'[e] = watchers[e]
      /\ watchers'[ev] = Append(q, x)
  BY <1>0 DEF Steady, Enqueues
<1>3. Content(Append(q, x)) = Content(q) \cup {x}
  BY <1>0, AppendContent
<1>4. \A s \in Suspensions, e \in Events : Queued(s, e)' <=> Queued(s, e) \/ (s = x /\ e = ev)
  <2>1. \A s \in Suspensions, e \in Events :
          /\ Queued(s, e) <=> s \in Content(watchers[e])
          /\ Queued(s, e)' <=> s \in Content(watchers'[e])
    BY QueuedContent DEF SuspInv, SuspTypeOK
  <2>2. \A s \in Suspensions : s \in Content(watchers'[ev]) <=> s \in Content(q) \/ s = x
    BY <1>2, <1>3
  <2> QED
    BY <1>0, <1>2, <2>1, <2>2
<1>5. \A u \in Agents : Holding(u, x, n) => u = t
  BY DEF SuspInv, OnePlace
<1>6. ~Queued(x, ev)
  BY DEF SuspInv, OnePlace
<1>7. \A s \in Suspensions : \A i \in 1..Len(events[s]) :
        /\ events[s][i] \in Events
        /\ s = x /\ events[s][i] = ev => i = n
  BY WaitsTyped DEF SuspInv
<1> HIDE DEF ev, q
<1>8. OnePlace'
  <2> SUFFICES ASSUME NEW s \in Suspensions, NEW i \in 1..Len(events[s])
               PROVE  /\ \A u, v \in Agents : Holding(u, s, i)' /\ Holding(v, s, i)' => u = v
                      /\ \A u \in Agents : Holding(u, s, i)' => ~Queued(s, events[s][i])'
    BY <1>2 DEF OnePlace
  <2>1. \A u \in Agents : Holding(u, s, i)' => Holding(u, s, i) /\ ~(s = x /\ i = n)
    BY <1>1, <1>5
  <2>2. \A u, v \in Agents : Holding(u, s, i) /\ Holding(v, s, i) => u = v
    BY DEF SuspInv, OnePlace
  <2>3. \A u \in Agents : Holding(u, s, i) => ~Queued(s, events[s][i])
    BY DEF SuspInv, OnePlace
  <2> QED
    BY <1>2, <1>4, <1>7, <2>1, <2>2, <2>3
<1>9. QueuedOnce'
  <2>0. QueuedOnce /\ Content(q) \subseteq Suspensions
    BY <1>0, ContentTyped DEF SuspInv
  <2>1. x \notin Content(q)
    BY <1>0, <1>6, QueuedContent DEF SuspInv, q
  <2>2. Once(Append(q, x))
    BY <1>0, <2>0, <2>1, AppendContent DEF QueuedOnce, q
  <2>3. \A s, e : WaitsFor(s, e)' <=> WaitsFor(s, e)
    BY <1>2 DEF WaitsFor
  <2>4. WaitsFor(x, ev)
    BY DEF WaitsFor, ev
  <2>5. \A s \in Content(q) : WaitsFor(s, ev)
    BY <1>0, <2>0 DEF QueuedOnce, q
  <2> QED
    BY <1>2, <1>3, <2>0, <2>2, <2>3, <2>4, <2>5 DEF QueuedOnce
<1>10. SameDue
  <2>1. ASSUME NEW s \in Suspensions, NEW i \in 1..Len(events[s])
        PROVE  /\ Queued(s, events[s][i])' \/ (\E u \in Agents : Holding(u, s, i)')
               <=> Queued(s, events[s][i]) \/ (\E u \in Agents : Holding(u, s, i))
    <3>1. CASE s = x /\ i = n
      <4>1. Queued(s, events[s][i])'
        BY <1>2, <1>4, <1>7, <3>1 DEF ev
      <4> QED
        BY <3>1, <4>1
    <3>2. CASE ~(s = x /\ i = n)
      <4>1. Queued(s, events[s][i])' <=> Queued(s, events[s][i])
        BY <1>2, <1>4, <1>7, <3>2
      <4>2. \A u \in Agents : Holding(u, s, i)' <=> Holding(u, s, i)
        BY <1>1, <3>2
      <4> QED
        BY <4>1, <4>2
    <3> QED
      BY <3>1, <3>2
  <2> QED
    BY <1>2, <2>1 DEF SameDue, Due
<1> QED
  BY <1>4, <1>8, <1>9, <1>10 DEF ev

\* One that notify takes from the queue.
LEMMA PlacePopped ==
  ASSUME SuspInv, SuspTypeOK', NEW t \in Agents, Steady(t), NEW ev \in Events,
         NEW x \in Suspensions, Dequeues(x, ev), NEW n \in 1..Len(events[x]), events[x][n] = ev,
         \A s \in Suspensions : \A i \in 1..Len(events[s]) :
           ~Holding(t, s, i) /\ (Holding(t, s, i)' <=> s = x /\ i = n)
  PROVE  /\ OnePlace' /\ QueuedOnce' /\ SameDue
         /\ \A s \in Suspensions, e \in Events : Queued(s, e)' <=> Queued(s, e) /\ ~(s = x /\ e = ev)
<1> DEFINE q == watchers[ev]
<1>0. watchers \in [Events -> Seq(Suspensions)] /\ q \in Seq(Suspensions)
  <2>1. watchers \in [Events -> Seq(Suspensions)]
    BY DEF SuspInv, SuspTypeOK
  <2> QED
    BY <2>1
<1>1. \A u \in Agents, s \in Suspensions : \A i \in 1..Len(events[s]) :
        u # t => (Holding(u, s, i)' <=> Holding(u, s, i))
  BY OthersHold
<1>2. /\ events' = events /\ \A e \in Events : e # ev => watchers'[e] = watchers[e]
      /\ watchers'[ev] = Tail(q)
  BY <1>0 DEF Steady, Dequeues
<1>3. x \in Content(q) /\ Content(Tail(q)) = Content(q) \ {x} /\ Once(Tail(q))
  <2>1. Once(q)
    BY DEF SuspInv, QueuedOnce
  <2> QED
    BY <1>0, <2>1, TailContent DEF Dequeues
<1>5. \A s \in Suspensions, e \in Events : Queued(s, e)' <=> Queued(s, e) /\ ~(s = x /\ e = ev)
  <2>1. \A s \in Suspensions, e \in Events :
          /\ Queued(s, e) <=> s \in Content(watchers[e])
          /\ Queued(s, e)' <=> s \in Content(watchers'[e])
    BY QueuedContent DEF SuspInv, SuspTypeOK
  <2>2. \A s \in Suspensions : s \in Content(watchers'[ev]) <=> s \in Content(q) /\ s # x
    BY <1>2, <1>3
  <2> QED
    BY <1>2, <2>1, <2>2
<1>6. Queued(x, ev)
  BY <1>3, QueuedContent DEF SuspInv
<1> HIDE DEF q
<1>7. \A s \in Suspensions : \A i \in 1..Len(events[s]) :
        /\ events[s][i] \in Events
        /\ s = x /\ events[s][i] = ev => i = n
  BY WaitsTyped, SMTT(30) DEF SuspInv
<1>8. OnePlace'
  <2> SUFFICES ASSUME NEW s \in Suspensions, NEW i \in 1..Len(events[s])
               PROVE  /\ \A u, v \in Agents : Holding(u, s, i)' /\ Holding(v, s, i)' => u = v
                      /\ \A u \in Agents : Holding(u, s, i)' => ~Queued(s, events[s][i])'
    BY <1>2 DEF OnePlace
  <2>1. /\ \A u, v \in Agents : Holding(u, s, i) /\ Holding(v, s, i) => u = v
        /\ \A u \in Agents : Holding(u, s, i) => ~Queued(s, events[s][i])
    BY DEF SuspInv, OnePlace
  <2>2. CASE s = x /\ i = n
    <3>1. \A u \in Agents : Holding(u, s, i)' => u = t
      BY <1>1, <1>6, <2>1, <2>2
    <3>2. ~Queued(s, events[s][i])'
      BY <1>2, <1>5, <2>2
    <3> QED
      BY <3>1, <3>2
  <2>3. CASE ~(s = x /\ i = n)
    <3>1. \A u \in Agents : Holding(u, s, i)' => Holding(u, s, i)
      BY <1>1, <2>3
    <3>2. Queued(s, events[s][i])' => Queued(s, events[s][i])
      BY <1>2, <1>5, <1>7
    <3> QED
      BY <2>1, <3>1, <3>2
  <2> QED
    BY <2>2, <2>3
<1>9. QueuedOnce'
  <2>1. QueuedOnce
    BY DEF SuspInv
  <2>2. \A s, e : WaitsFor(s, e)' <=> WaitsFor(s, e)
    BY <1>2 DEF WaitsFor
  <2>3. \A s \in Content(q) : WaitsFor(s, ev)
    BY <2>1 DEF QueuedOnce, q
  <2> QED
    BY <1>2, <1>3, <2>1, <2>2, <2>3 DEF QueuedOnce
<1>10. SameDue
  <2>1. ASSUME NEW s \in Suspensions, NEW i \in 1..Len(events[s])
        PROVE  /\ Queued(s, events[s][i])' \/ (\E u \in Agents : Holding(u, s, i)')
               <=> Queued(s, events[s][i]) \/ (\E u \in Agents : Holding(u, s, i))
    <3>1. CASE s = x /\ i = n
      BY <1>6, <3>1
    <3>2. CASE ~(s = x /\ i = n)
      <4>1. Queued(s, events[s][i])' <=> Queued(s, events[s][i])
        BY <1>2, <1>5, <1>7, <3>2
      <4>2. \A u \in Agents : Holding(u, s, i)' <=> Holding(u, s, i)
        BY <1>1, <3>2
      <4> QED
        BY <4>1, <4>2
    <3> QED
      BY <3>1, <3>2
  <2> QED
    BY <1>2, <2>1 DEF SameDue, Due
<1> QED
  BY <1>5, <1>8, <1>9, <1>10

-----------------------------------------------------------------------------
\* Calls that return.

\* The waker in an agent's hands is used up when the agent returns or goes on to undo.
LEMMA Carried ==
  ASSUME SuspInv, NEW t \in Agents, Steady(t), ag[t].pc \in {"resume", "commit"}, ag[t].ret.pc # "idle",
         ag'[t] = ag[t].ret \/ ag'[t] = [pc |-> "undo", s |-> ag[t].s, ret |-> ag[t].ret]
  PROVE  \E n \in 1..Len(events[ag[t].s]) :
           /\ Holding(t, ag[t].s, n)
           /\ \A s \in Suspensions : \A i \in 1..Len(events[s]) :
                Holding(t, s, i)' <=> Holding(t, s, i) /\ ~(s = ag[t].s /\ i = n)
<1> DEFINE x == ag[t].s
<1>0. SuspTypeOK /\ AgentKnows(t) /\ events' = events
  BY DEF SuspInv, AgentsKnow, Steady
<1>1. x \in Suspensions
  BY <1>0, SuspShape DEF SuspPCs
<1>2. \A i, j \in 1..Len(events[x]) : events[x][i] = events[x][j] => i = j
  BY <1>0, <1>1, WaitsTyped
<1>3. CASE ag[t].ret.pc = "notify"
  <2>1. PICK n \in 1..Len(events[x]) : events[x][n] = ag[t].ret.e
    BY <1>0, <1>3 DEF AgentKnows
  <2>2. \A s : \A i \in 1..Len(events[s]) : Holding(t, s, i) <=> s = x /\ i = n
    BY <1>2, <1>3, <2>1 DEF Holding, SuspPCs
  <2>3. \A s, i : ~Holding(t, s, i)'
    <3>1. ag'[t].pc = "notify" \/ (ag'[t].pc = "undo" /\ ag'[t].ret.pc = "notify")
      BY <1>3
    <3> QED
      BY <3>1 DEF Holding, SuspPCs
  <2> QED
    BY <2>2, <2>3
<1>4. CASE ag[t].ret.pc = "added"
  <2> DEFINE n == ag[t].ret.i
  <2>1. ag[t].ret.s = x /\ n \in 1..Len(events[x]) /\ Len(events[x]) \in Nat
    <3>1. events[x] \in Seq(Events)
      BY <1>0, <1>1, WaitsTyped
    <3> QED
      BY <1>0, <1>4, <3>1 DEF AgentKnows
  <2>2. \A s : \A i \in 1..Len(events[s]) : Holding(t, s, i) <=> s = x /\ n <= i
    BY <1>4 DEF Holding, SuspPCs
  <2>3. \A s : \A i \in 1..Len(events[s]) : Holding(t, s, i)' <=> s = x /\ n < i
    <3>1. CASE ag'[t] = ag[t].ret
      BY <1>4, <2>1, <3>1 DEF Holding, SuspPCs
    <3>2. CASE ag'[t] = [pc |-> "undo", s |-> ag[t].s, ret |-> ag[t].ret]
      BY <1>4, <2>1, <3>2 DEF Holding, SuspPCs
    <3> QED
      BY <3>1, <3>2
  <2>4. \A s \in Suspensions : \A i \in 1..Len(events[s]) :
          Holding(t, s, i)' <=> Holding(t, s, i) /\ ~(s = x /\ i = n)
    <3> HIDE DEF x, n
    <3> SUFFICES ASSUME NEW s \in Suspensions, NEW i \in 1..Len(events[s])
                 PROVE  Holding(t, s, i)' <=> Holding(t, s, i) /\ ~(s = x /\ i = n)
      OBVIOUS
    <3>1. (Holding(t, s, i) <=> s = x /\ n <= i) /\ (Holding(t, s, i)' <=> s = x /\ n < i)
      BY <2>2, <2>3
    <3>2. s = x => (n < i <=> n <= i /\ i # n)
      BY <2>1
    <3> QED
      BY <3>1, <3>2
  <2>5. Holding(t, x, n)
    BY <2>1, <2>2
  <2> QED
    BY <2>1, <2>4, <2>5
<1>5. ag[t].ret.pc \in {"idle", "notify", "added"}
  BY <1>0, AgentShape
<1> QED
  BY <1>3, <1>4, <1>5

\* With no waker in its hands, or none left, its return changes no place.
LEMMA EmptyHanded ==
  ASSUME SuspInv, NEW t \in Agents, Steady(t), ag'[t] = ag[t].ret,
         \/ ag[t].pc \in {"resume", "commit"} /\ ag[t].ret.pc = "idle"
         \/ ag[t].pc = "undo"
  PROVE  SameHolding(t)
<1>0. SuspTypeOK /\ AgentKnows(t) /\ events' = events /\ ag[t].ret.pc \in {"idle", "notify", "added"}
  BY AgentShape DEF SuspInv, AgentsKnow, Steady
<1>1. CASE ag[t].ret.pc = "idle"
  BY <1>0, <1>1 DEF SameHolding, Holding, SuspPCs
<1>2. CASE ag[t].pc = "undo" /\ ag[t].ret.pc = "notify"
  BY <1>0, <1>2 DEF SameHolding, Holding, SuspPCs
<1>3. CASE ag[t].pc = "undo" /\ ag[t].ret.pc = "added"
  BY <1>0, <1>3 DEF SameHolding, Holding, SuspPCs, AgentKnows
<1> QED
  BY <1>0, <1>1, <1>2, <1>3

LEMMA ReturnFacts ==
  ASSUME SuspInv, NEW t \in Agents, Steady(t), ag[t].pc \in {"resume", "commit", "undo"}, ag'[t] = ag[t].ret
  PROVE  /\ AgentKnows(t)' /\ (ag'[t].pc \in SuspPCs => Made(ag'[t].s))
         /\ ag'[t].pc # "running"
         /\ \A e \in Events : Notifier(t, e) => Notifier(t, e)'
<1>0. /\ SuspTypeOK /\ AgentKnows(t) /\ events' = events /\ ag[t].ret.pc \in {"idle", "notify", "added"}
      /\ Made(ag[t].s)
  BY AgentShape, ReferredMade DEF SuspInv, AgentsKnow, Steady, SuspPCs
<1> QED
  BY <1>0 DEF AgentKnows, SuspPCs, Notifier

\* The single waits, where only the suspension at hand changes.
LEMMA SingleDropped ==
  ASSUME SuspInv, NEW t \in Agents, Steady(t), NEW x \in Suspensions,
         ag[t].pc \in SuspPCs, ag[t].s = x,
         \A s \in Suspensions : s # x => Due(s)' = Due(s),
         \A s \in Suspensions : consumed[s] => consumed'[s],
         consumed'[x] \/ Multi(x) \/ Aborted(x)
  PROVE  SingleDue'
<1> SUFFICES ASSUME NEW s \in Suspensions, Made(s)', ~Multi(s)', ~consumed'[s], ~Aborted(s)'
             PROVE  IF events'[s] = <<>>
                      THEN \E u \in Agents : ag'[u].pc \in {"checkpoint", "resume", "commit"} /\ ag'[u].s = s
                      ELSE 1 \in Due(s)'
  BY DEF SingleDue
<1>1. Made(s) /\ ~Multi(s) /\ ~consumed[s] /\ ~Aborted(s) /\ s # x
  BY SteadyFacts DEF SuspInv
<1>2. events' = events /\ \A u \in Agents : u # t => ag'[u] = ag[u]
  BY DEF Steady
<1>3. CASE events[s] = <<>>
  <2>1. PICK u \in Agents : ag[u].pc \in {"checkpoint", "resume", "commit"} /\ ag[u].s = s
    BY <1>1, <1>3 DEF SuspInv, SingleDue
  <2>2. u # t
    BY <1>1, <2>1
  <2> QED
    BY <1>2, <1>3, <2>1, <2>2
<1>4. CASE events[s] # <<>>
  BY <1>1, <1>2, <1>4 DEF SuspInv, SingleDue
<1> QED
  BY <1>3, <1>4

\* The countdowns, where only one suspension changes, whose checkpoint is aborted.
LEMMA CountSpoilt ==
  ASSUME SuspInv, NEW t \in Agents, Steady(t), NEW x \in Suspensions, ~Multi(x) \/ Spoilt(Owner(x)),
         \A s \in Suspensions : s # x => Due(s)' = Due(s) /\ counter'[s] = counter[s]
  PROVE  Countdown'
<1>1. \A s \in Suspensions : Owner(s) \in Coros
  BY DEF Owner, Suspensions
<1> QED
  BY <1>1, SteadyFacts DEF SuspInv, Countdown, Owner

\* The tokens, where only a coroutine whose checkpoint is aborted around a wait for several
\* events changes.
LEMMA TokenAside ==
  ASSUME SuspInv, NEW t \in Agents, Steady(t), finished' = finished,
         \A c \in Coros : Calm(c) => handles'[c] = handles[c],
         \A s \in Suspensions : Calm(Owner(s)) => (Open(s)' <=> Open(s)),
         \A c \in Coros : Drives(t, c)' <=> Drives(t, c)
  PROVE  OneToken'
<1>1. \A u \in Agents, c \in Coros : Drives(u, c)' <=> Drives(u, c)
  BY DEF Steady, Drives
<1>2. \A c \in Coros : Driven(c)' <=> Driven(c)
  BY <1>1 DEF Driven
<1>4. \A c \in Coros : \A k \in 1..MaxWaits : <<c, k>> \in Suspensions /\ Owner(<<c, k>>) = c
  BY DEF Suspensions, Owner
<1>3. \A c \in Coros : Calm(c) => (Awaits(c)' <=> Awaits(c))
  <2>1. waits' = waits /\ \A c \in Coros : waits[c] > 0 => Current(c) \in Suspensions /\ Owner(Current(c)) = c
    BY ProgramsAssumption DEF Steady, SuspInv, SuspTypeOK, Current, Suspensions, Owner
  <2> QED
    BY <2>1 DEF Awaits, Current
<1> SUFFICES ASSUME NEW c \in Coros, Calm(c)'
             PROVE  /\ handles'[c] \in {0, 1}
                    /\ c \in finished' => handles'[c] = 0 /\ ~Driven(c)' /\ ~Awaits(c)'
                    /\ c \notin finished' => handles'[c] = 1 \/ Driven(c)' \/ Awaits(c)'
                    /\ handles'[c] = 1 => ~Driven(c)' /\ ~Awaits(c)'
                    /\ Driven(c)' => ~Awaits(c)'
                    /\ \A u, v \in Agents : Drives(u, c)' /\ Drives(v, c)' => u = v
                    /\ \A k \in 1..MaxWaits : k < waits'[c] => ~Open(<<c, k>>)'
  BY DEF OneToken
<1>5. Calm(c) /\ waits' = waits
  BY SteadyFacts DEF SuspInv, Steady
<1> QED
  BY <1>1, <1>2, <1>3, <1>4, <1>5 DEF SuspInv, OneToken

\* The waker that wins queues the coroutine that waits.
LEMMA TokenPassed ==
  ASSUME SuspInv, NEW t \in Agents, Steady(t), finished' = finished,
         NEW x \in Suspensions, Made(x), Open(x), ~Open(x)', PushHandle(Owner(x)),
         \A s \in Suspensions : s # x => (Open(s)' <=> Open(s)),
         \A c \in Coros : Drives(t, c)' <=> Drives(t, c)
  PROVE  OneToken'
<1> DEFINE o == Owner(x)
<1>0. o \in Coros /\ x[2] \in 1..MaxWaits /\ x = <<o, x[2]>> /\ waits' = waits /\ waits[o] \in 0..MaxWaits /\ MaxWaits \in Nat
  BY WaitsTyped DEF SuspInv, SuspTypeOK, Steady
<1>1. \A u \in Agents, c \in Coros : Drives(u, c)' <=> Drives(u, c)
  BY DEF Steady, Drives
<1>2. \A c \in Coros : Driven(c)' <=> Driven(c)
  BY <1>1 DEF Driven
<1>4. \A c \in Coros : \A k \in 1..MaxWaits : <<c, k>> \in Suspensions
  BY DEF Suspensions
<1>3. /\ \A c \in Coros : waits[c] > 0 => Current(c) \in Suspensions
      /\ \A c \in Coros : Current(c)' = Current(c)
  BY ProgramsAssumption DEF Steady, SuspInv, SuspTypeOK, Current, Suspensions
<1>6. \A c \in Coros : c # o => (Awaits(c)' <=> Awaits(c))
  <2>1. \A c \in Coros : c # o => Current(c) # x
    BY DEF Current, Owner
  <2> QED
    BY <1>0, <1>3, <2>1 DEF Awaits
<1>7. handles'[o] = handles[o] + 1 /\ \A c \in Coros : c # o => handles'[c] = handles[c]
  <2>1. handles \in [Coros -> Nat] /\ handles' = [handles EXCEPT ![o] = @ + 1]
    BY DEF SuspInv, SuspTypeOK, PushHandle
  <2> QED
    BY <1>0, <2>1
<1>8. ASSUME NEW c \in Coros, Calm(c)
      PROVE  /\ handles[c] \in {0, 1}
             /\ c \in finished => handles[c] = 0 /\ ~Driven(c) /\ ~Awaits(c)
             /\ c \notin finished => handles[c] = 1 \/ Driven(c) \/ Awaits(c)
             /\ handles[c] = 1 => ~Driven(c) /\ ~Awaits(c)
             /\ Driven(c) => ~Awaits(c)
             /\ \A u, v \in Agents : Drives(u, c) /\ Drives(v, c) => u = v
             /\ \A k \in 1..MaxWaits : k < waits[c] => ~Open(<<c, k>>)
  BY <1>8 DEF SuspInv, OneToken
<1> SUFFICES ASSUME NEW c \in Coros, Calm(c)'
             PROVE  /\ handles'[c] \in {0, 1}
                    /\ c \in finished' => handles'[c] = 0 /\ ~Driven(c)' /\ ~Awaits(c)'
                    /\ c \notin finished' => handles'[c] = 1 \/ Driven(c)' \/ Awaits(c)'
                    /\ handles'[c] = 1 => ~Driven(c)' /\ ~Awaits(c)'
                    /\ Driven(c)' => ~Awaits(c)'
                    /\ \A u, v \in Agents : Drives(u, c)' /\ Drives(v, c)' => u = v
                    /\ \A k \in 1..MaxWaits : k < waits'[c] => ~Open(<<c, k>>)'
  BY DEF OneToken
<1>5. Calm(c)
  BY SteadyFacts DEF SuspInv
<1> HIDE DEF o
<1>9. CASE c # o
  <2>1. \A k \in 1..MaxWaits : Open(<<c, k>>)' <=> Open(<<c, k>>)
    BY <1>0, <1>4, <1>9
  <2> QED
    BY <1>0, <1>1, <1>2, <1>5, <1>6, <1>7, <1>8, <1>9, <2>1
<1>10. CASE c = o
  <2>1. x[2] = waits[o] /\ waits[o] > 0
    <3>1. ~(x[2] < waits[o])
      BY <1>0, <1>5, <1>8, <1>10
    <3>2. x[2] <= waits[o]
      BY DEF Made, o
    <3> QED
      BY <1>0, <3>1, <3>2
  <2>2. Current(o) = x
    BY <1>0, <2>1 DEF Current
  <2>3. Awaits(o) /\ ~Awaits(o)'
    BY <1>0, <1>3, <2>1, <2>2 DEF Awaits
  <2>4. handles[o] = 0 /\ ~Driven(o) /\ o \notin finished
    BY <1>5, <1>8, <1>10, <2>3
  <2>5. \A k \in 1..MaxWaits : k < waits[o] => ~Open(<<o, k>>)'
    <3>1. \A k \in 1..MaxWaits : k < waits[o] => <<o, k>> # x
      BY <1>0, <2>1
    <3> QED
      BY <1>0, <1>4, <1>5, <1>8, <1>10, <3>1
  <2> QED
    BY <1>0, <1>1, <1>2, <1>5, <1>7, <1>8, <1>10, <2>3, <2>4, <2>5
<1> QED
  BY <1>9, <1>10

-----------------------------------------------------------------------------
\* The steps that move wakers and tokens.

\* A wait for several events is one the program makes.
LEMMA MultiSpoils ==
  ASSUME SuspTypeOK, NEW s \in Suspensions, Multi(s)
  PROVE  /\ Spoilt(Owner(s)) <=> ~Calm(Owner(s))
         /\ events[s] # <<>>
<1>1. events[s] \in program.waits \cup {<<>>}
  BY DEF SuspTypeOK
<1>2. events[s] # <<>>
  BY DEF Multi
<1>3. events[s] \in program.waits /\ ~(Len(events[s]) <= 1)
  <2>1. Len(events[s]) \in Nat
    BY WaitsTyped
  <2> QED
    BY <1>1, <1>2, <2>1 DEF Multi
<1> QED
  BY <1>2, <1>3 DEF Calm, OnlySingle

\* The waker is queued, its event not being set.
LEMMA AddWakerKept ==
  ASSUME SuspInv, SuspTypeOK', UNCHANGED program, NEW t \in Agents,
         AddWaker(t), ~flag[events[ag[t].s][ag[t].i]]
  PROVE  SuspInv'
<1> USE DEF At, eventVars, suspVars, tokenVars, ckptVars
<1> DEFINE x == ag[t].s
           n == ag[t].i
           e == events[x][n]
<1>0. SuspTypeOK /\ AgentKnows(t)
  BY DEF SuspInv, AgentsKnow
<1>1. /\ ag[t].pc = "register" /\ Steady(t) /\ UNCHANGED <<consumed, counter, handles, finished, timers, flag>>
      /\ ag'[t] = [pc |-> "register", s |-> x, i |-> n + 1]
      /\ n <= Len(events[x]) /\ watchers' = [watchers EXCEPT ![e] = Append(@, x)]
  BY <1>0, BecomeFacts DEF AddWaker, Steady, Registering
<1>2. x \in Suspensions /\ events[x] \in Seq(Events) /\ n \in 1..Len(events[x]) /\ Made(x) /\ events' = events
      /\ e \in Events
  <2>1. x \in Suspensions /\ events[x] \in Seq(Events) /\ n \in 1..Len(events[x]) /\ Made(x) /\ events' = events
    <3>1. ag[t].pc = "register" /\ Steady(t) /\ n <= Len(events[x])
      BY <1>1, Zenon
    <3>2. x \in Suspensions /\ n \in Nat \ {0} /\ Made(x)
      BY <1>0, <3>1, SuspShape, ReferredMade DEF SuspPCs
    <3>3. events[x] \in Seq(Events) /\ Len(events[x]) \in Nat
      BY <1>0, <3>2, WaitsTyped
    <3> QED
      BY <3>1, <3>2, <3>3 DEF Steady
  <2> QED
    BY <2>1
<1>3. ag'[t].pc = "register" /\ ag'[t].s = x /\ ag'[t].i = n + 1
  <2>1. ag'[t] = [pc |-> "register", s |-> x, i |-> n + 1]
    BY <1>1, Zenon
  <2> HIDE DEF x, n
  <2> QED
    BY <2>1
<1>4. /\ Holding(t, x, n)
      /\ \A s \in Suspensions : \A i \in 1..Len(events[s]) :
           Holding(t, s, i)' <=> Holding(t, s, i) /\ ~(s = x /\ i = n)
  <2>1. \A s : \A i \in 1..Len(events[s]) : Holding(t, s, i) <=> s = x /\ n <= i
    BY <1>1 DEF Holding, SuspPCs
  <2>2. \A s : \A i \in 1..Len(events[s]) : Holding(t, s, i)' <=> s = x /\ n + 1 <= i
    BY <1>3 DEF Holding, SuspPCs
  <2>3. \A i \in 1..Len(events[x]) : n + 1 <= i <=> n <= i /\ i # n
    BY <1>2
  <2>4. n <= n
    BY <1>2
  <2> QED
    BY <1>2, <2>1, <2>2, <2>3, <2>4
<1> HIDE DEF x, n, e
<1>5. /\ OnePlace' /\ QueuedOnce' /\ SameDue
      /\ \A s \in Suspensions, y \in Events : Queued(s, y)' <=> Queued(s, y) \/ (s = x /\ y = e)
  <2>1. PICK y \in Suspensions : y = x
    BY <1>2
  <2>2. PICK m \in 1..Len(events[y]) : m = n
    BY <1>2, <2>1
  <2>3. Enqueues(y, events[y][m])
    BY <1>1, <2>1, <2>2 DEF e, Enqueues
  <2>4. /\ Holding(t, y, m)
        /\ \A s \in Suspensions : \A i \in 1..Len(events[s]) :
             Holding(t, s, i)' <=> Holding(t, s, i) /\ ~(s = y /\ i = m)
    BY <1>4, <2>1, <2>2
  <2>5. /\ OnePlace' /\ QueuedOnce' /\ SameDue
        /\ \A s \in Suspensions, z \in Events : Queued(s, z)' <=> Queued(s, z) \/ (s = y /\ z = events[y][m])
    BY <1>1, <2>3, <2>4, PlaceQueued
  <2> QED
    BY <2>1, <2>2, <2>5 DEF e
<1>6. FreshSusp'
  <2>1. \A s \in Suspensions : ~Made(s) => s # x
    BY <1>2
  <2> QED
    BY <1>1, <1>2, <1>3, <1>5, <2>1, FreshKept DEF SuspInv, FreshSusp
<1>7. AgentsKnow' /\ CkptFollows'
  <2>1. AgentKnows(t)'
    <3>1. events'[x] # <<>> /\ n + 1 \in 1..(Len(events'[x]) + 1)
      BY <1>2
    <3> QED
      BY <1>3, <3>1 DEF AgentKnows
  <2> QED
    BY <1>1, <2>1, KnowKept
<1>8. TimersSingle'
  BY <1>1 DEF SuspInv, TimersSingle, Steady
<1>9. Countdown' /\ SingleDue'
  BY <1>1, <1>5, CountKept, SingleKept
<1>10. SetIsNotified'
  <2>1. \A u \in Agents, y \in Events : u # t => (Notifier(u, y)' <=> Notifier(u, y))
    BY <1>1 DEF Steady, Notifier
  <2>2. \A y \in Events : ~Notifier(t, y)
    BY <1>1 DEF Notifier
  <2>3. \A y \in Events : flag'[y] => flag[y] /\ watchers'[y] = watchers[y]
    BY <1>0, <1>1, <1>2 DEF SuspTypeOK, e, x, n
  <2> QED
    BY <2>1, <2>2, <2>3 DEF SuspInv, SetIsNotified
<1>11. OneToken'
  <2>1. \A s \in Suspensions : Open(s)' <=> Open(s)
    BY <1>0, <1>1, SteadyFacts DEF Open
  <2> QED
    BY <1>1, <1>3, <2>1, TokenKept DEF Drives
<1> QED
  BY <1>5, <1>6, <1>7, <1>8, <1>9, <1>10, <1>11 DEF SuspInv

\* notify takes the next waker.
LEMMA NotifyKept ==
  ASSUME SuspInv, SuspTypeOK', UNCHANGED program, NEW t \in Agents,
         Notify(t), watchers[ag[t].e] # <<>>
  PROVE  SuspInv'
<1> USE DEF At, eventVars, suspVars, tokenVars, ckptVars
<1> DEFINE e == ag[t].e
           x == Head(watchers[e])
<1>0. SuspTypeOK
  BY DEF SuspInv
<1>1. /\ ag[t].pc = "notify" /\ Steady(t) /\ UNCHANGED <<consumed, counter, handles, finished, timers, flag>>
      /\ ag'[t] = [pc |-> "resume", s |-> x, ret |-> [pc |-> "notify", e |-> e]]
      /\ watchers' = [watchers EXCEPT ![e] = Tail(@)]
  BY <1>0, BecomeFacts DEF Notify, Steady, Resuming, Notifying
<1>2. e \in Events /\ watchers[e] \in Seq(Suspensions) /\ x \in Suspensions /\ events' = events
  <2>1. e \in Events /\ watchers \in [Events -> Seq(Suspensions)] /\ events' = events
    BY <1>0, <1>1, AgentShape DEF SuspTypeOK, Steady
  <2>2. watchers[e] \in Seq(Suspensions)
    BY <2>1
  <2> QED
    BY <2>1, <2>2
<1>3. /\ ag'[t].pc = "resume" /\ ag'[t].s = x /\ ag'[t].ret.pc = "notify" /\ ag'[t].ret.e = e
  BY <1>1
<1>4. Queued(x, e) /\ Made(x) /\ \E i \in 1..Len(events[x]) : events[x][i] = e
  <2>1. x \in Content(watchers[e])
    BY <1>2, TailContent DEF SuspInv, QueuedOnce
  <2>2. Queued(x, e) /\ WaitsFor(x, e)
    BY <1>0, <1>2, <2>1, QueuedContent DEF SuspInv, QueuedOnce
  <2> QED
    BY <1>2, <2>2 DEF SuspInv, FreshSusp, WaitsFor
<1>5. PICK n \in 1..Len(events[x]) : events[x][n] = e
  BY <1>4
<1>6. \A s \in Suspensions : \A i \in 1..Len(events[s]) :
        ~Holding(t, s, i) /\ (Holding(t, s, i)' <=> s = x /\ i = n)
  <2>1. \A i \in 1..Len(events[x]) : events[x][i] = e => i = n
    BY <1>0, <1>2, <1>5, WaitsTyped, SMTT(30)
  <2>2. \A s, i : ~Holding(t, s, i)
    BY <1>1 DEF Holding, SuspPCs
  <2>3. \A s, i : Holding(t, s, i)' <=> s = x /\ events[s][i] = e
    BY <1>2, <1>3 DEF Holding, SuspPCs
  <2> QED
    BY <1>5, <2>1, <2>2, <2>3
<1> HIDE DEF x, e
<1>7. /\ OnePlace' /\ QueuedOnce' /\ SameDue
      /\ \A s \in Suspensions, y \in Events : Queued(s, y)' <=> Queued(s, y) /\ ~(s = x /\ y = e)
  <2>1. PICK y \in Suspensions : y = x
    BY <1>2
  <2>2. PICK ev \in Events : ev = e
    BY <1>2
  <2>3. PICK m \in 1..Len(events[y]) : m = n
    BY <1>5, <2>1
  <2>4. Dequeues(y, ev) /\ events[y][m] = ev
    BY <1>1, <1>5, <2>1, <2>2, <2>3 DEF x, e, Dequeues
  <2>5. \A s \in Suspensions : \A i \in 1..Len(events[s]) :
          ~Holding(t, s, i) /\ (Holding(t, s, i)' <=> s = y /\ i = m)
    BY <1>6, <2>1, <2>3
  <2>6. /\ OnePlace' /\ QueuedOnce' /\ SameDue
        /\ \A s \in Suspensions, z \in Events : Queued(s, z)' <=> Queued(s, z) /\ ~(s = y /\ z = ev)
    BY <1>1, <2>4, <2>5, PlacePopped
  <2> QED
    BY <2>1, <2>2, <2>6
<1>8. FreshSusp'
  BY <1>1, <1>3, <1>4, <1>7, FreshKept DEF SuspInv, FreshSusp
<1>9. AgentsKnow' /\ CkptFollows'
  <2>1. AgentKnows(t)'
    BY <1>2, <1>3, <1>4 DEF AgentKnows
  <2> QED
    BY <1>1, <2>1, KnowKept
<1>10. TimersSingle'
  BY <1>1 DEF SuspInv, TimersSingle, Steady
<1>11. Countdown' /\ SingleDue'
  BY <1>1, <1>7, CountKept, SingleKept
<1>12. SetIsNotified'
  <2>1. \A u \in Agents, y \in Events : Notifier(u, y) => Notifier(u, y)'
    BY <1>1, <1>3 DEF Steady, Notifier, e
  <2>2. \A y \in Events : watchers'[y] # <<>> => watchers[y] # <<>>
    BY <1>0, <1>1, <1>2 DEF SuspTypeOK, e
  <2> QED
    BY <1>1, <2>1, <2>2 DEF SuspInv, SetIsNotified
<1>13. OneToken'
  <2>1. \A s \in Suspensions : Open(s)' <=> Open(s)
    BY <1>0, <1>1, SteadyFacts DEF Open
  <2> QED
    BY <1>1, <1>3, <2>1, TokenKept DEF Drives
<1> QED
  BY <1>7, <1>8, <1>9, <1>10, <1>11, <1>12, <1>13 DEF SuspInv

\* What a return keeps besides places, countdowns and tokens.
LEMMA ReturnKept ==
  ASSUME SuspInv, SuspTypeOK', NEW t \in Agents, Steady(t), ag[t].pc \in {"resume", "commit", "undo"},
         ag'[t] = ag[t].ret, UNCHANGED <<watchers, flag, timers>>,
         \A s \in Suspensions : s # ag[t].s => consumed'[s] = consumed[s]
  PROVE  FreshSusp' /\ AgentsKnow' /\ CkptFollows' /\ TimersSingle' /\ SetIsNotified'
<1>1. /\ AgentKnows(t)' /\ (ag'[t].pc \in SuspPCs => Made(ag'[t].s))
      /\ \A e \in Events : Notifier(t, e) => Notifier(t, e)'
  BY ReturnFacts
<1>2. FreshSusp'
  <2>1. Made(ag[t].s)
    BY ReferredMade DEF SuspPCs
  <2>2. \A s, e : Queued(s, e)' <=> Queued(s, e)
    BY DEF Queued
  <2> QED
    BY <1>1, <2>1, <2>2, FreshKept DEF SuspInv, FreshSusp
<1>3. AgentsKnow' /\ CkptFollows'
  BY <1>1, KnowKept
<1>4. TimersSingle'
  BY DEF SuspInv, TimersSingle, Steady
<1>5. SetIsNotified'
  BY <1>1, NotifiedKept
<1> QED
  BY <1>2, <1>3, <1>4, <1>5

\* A resume that finds the checkpoint aborted.
LEMMA ResumeAborted ==
  ASSUME SuspInv, SuspTypeOK', UNCHANGED program, NEW t \in Agents, Resume(t), Aborted(ag[t].s)
  PROVE  SuspInv'
<1> USE DEF At, eventVars, suspVars, tokenVars, ckptVars
<1> DEFINE x == ag[t].s
<1>0. SuspTypeOK /\ AgentKnows(t)
  BY DEF SuspInv, AgentsKnow
<1>1. /\ ag[t].pc = "resume" /\ Steady(t) /\ ag'[t] = ag[t].ret
      /\ UNCHANGED <<watchers, consumed, counter, handles, finished, timers, flag>>
  BY <1>0, BecomeFacts DEF Resume, Steady
<1>2. x \in Suspensions /\ Spoilt(Owner(x))
  <2>1. x \in Suspensions /\ Owner(x) \in Coros /\ x[2] \in 1..MaxWaits /\ x = <<Owner(x), x[2]>>
    BY <1>0, <1>1, SuspShape, WaitsTyped DEF SuspPCs
  <2>2. linked[<<Owner(x), x[2]>>] /\ aborted[Owner(x)]
    BY <2>1 DEF Aborted
  <2> QED
    BY <2>1, <2>2 DEF Spoilt, SuspInv, CkptFollows
<1>3. OnePlace' /\ QueuedOnce' /\ \A s \in Suspensions : s # x => Due(s)' = Due(s)
  <2>1. CASE ag[t].ret.pc = "idle"
    BY <1>1, <2>1, EmptyHanded, PlaceKept DEF SameDue
  <2>2. CASE ag[t].ret.pc # "idle"
    <3>1. PICK n \in 1..Len(events[x]) :
            /\ Holding(t, x, n)
            /\ \A s \in Suspensions : \A i \in 1..Len(events[s]) :
                 Holding(t, s, i)' <=> Holding(t, s, i) /\ ~(s = x /\ i = n)
      BY <1>1, <2>2, Carried
    <3> QED
      BY <1>1, <1>2, <3>1, PlaceDropped
  <2> QED
    BY <2>1, <2>2
<1>4. FreshSusp' /\ AgentsKnow' /\ CkptFollows' /\ TimersSingle' /\ SetIsNotified'
  BY <1>1, ReturnKept
<1>5. Countdown'
  BY <1>1, <1>2, <1>3, CountSpoilt
<1>6. SingleDue'
  BY <1>1, <1>2, <1>3, SingleDropped DEF SuspPCs
<1>7. OneToken'
  <2>1. \A s \in Suspensions : Open(s)' <=> Open(s)
    BY <1>0, <1>1, SteadyFacts DEF Open
  <2>2. ag'[t].pc # "running"
    BY <1>1, ReturnFacts
  <2> QED
    BY <1>1, <2>1, <2>2, TokenKept DEF Drives
<1> QED
  BY <1>3, <1>4, <1>5, <1>6, <1>7 DEF SuspInv

LEMMA DueFinite ==
  ASSUME SuspTypeOK, NEW s \in Suspensions
  PROVE  /\ IsFiniteSet(Due(s)) /\ Cardinality(Due(s)) \in Nat
         /\ \A n \in Due(s) : Cardinality(Due(s) \ {n}) = Cardinality(Due(s)) - 1 /\ Cardinality(Due(s)) >= 1
<1>1. Len(events[s]) \in Nat
  BY WaitsTyped
<1>2. IsFiniteSet(1..Len(events[s]))
  BY <1>1, FS_Interval
<1>3. IsFiniteSet(Due(s))
  <2>1. Due(s) \subseteq 1..Len(events[s])
    BY DEF Due
  <2> QED
    BY <1>2, <2>1, FS_Subset
<1>4. Cardinality(Due(s)) \in Nat
  BY <1>3, FS_CardinalityType
<1>5. ASSUME NEW n \in Due(s)
      PROVE  Cardinality(Due(s) \ {n}) = Cardinality(Due(s)) - 1 /\ Cardinality(Due(s)) >= 1
  <2>1. Cardinality(Due(s) \ {n}) = Cardinality(Due(s)) - 1
    BY <1>3, FS_RemoveElement
  <2>2. Cardinality(Due(s) \ {n}) \in Nat
    BY <1>3, FS_RemoveElement, FS_CardinalityType
  <2> QED
    BY <1>4, <2>1, <2>2
<1> QED
  BY <1>3, <1>4, <1>5

\* Sentinel::decrement.
LEMMA CommitMultiKept ==
  ASSUME SuspInv, SuspTypeOK', UNCHANGED program, NEW t \in Agents, Commit(t), Multi(ag[t].s)
  PROVE  SuspInv'
<1> USE DEF At, eventVars, suspVars, tokenVars, ckptVars
<1>0. SuspTypeOK /\ AgentKnows(t)
  BY DEF SuspInv, AgentsKnow
<1>a. ag[t].pc = "commit" /\ ag[t].s \in Suspensions
  BY <1>0, SuspShape DEF Commit, SuspPCs
<1>b. PICK x \in Suspensions : x = ag[t].s
  BY <1>a
<1>1. /\ ag[t].pc = "commit" /\ Steady(t)
      /\ UNCHANGED <<watchers, consumed, finished, timers, flag>>
      /\ counter' = [counter EXCEPT ![x] = @ - 1]
      /\ counter[x] = 1 => PushHandle(Owner(x))
      /\ counter[x] # 1 => handles' = handles
      /\ counter[x] # 0 => ag'[t] = ag[t].ret
      /\ counter[x] = 0 => ag'[t] = [pc |-> "undo", s |-> ag[t].s, ret |-> ag[t].ret]
  <2>1. Become(t, IF counter[x] = 0 THEN [pc |-> "undo", s |-> ag[t].s, ret |-> ag[t].ret] ELSE ag[t].ret)
    <3>1. [ag[t] EXCEPT !.pc = "undo"] = [pc |-> "undo", s |-> ag[t].s, ret |-> ag[t].ret]
      BY <1>0, <1>a, AgentShape
    <3> QED
      BY <1>b, <3>1 DEF Commit
  <2>2. /\ (counter[x] # 0 => ag'[t] = ag[t].ret)
        /\ (counter[x] = 0 => ag'[t] = [pc |-> "undo", s |-> ag[t].s, ret |-> ag[t].ret])
        /\ \A u \in Agents : u # t => ag'[u] = ag[u]
    BY <1>0, <2>1, BecomeFacts
  <2>3. UNCHANGED <<watchers, consumed, finished, timers, flag, suspVars, ckptVars>>
    BY <1>b DEF Commit
  <2>4. Steady(t)
    BY <2>2, <2>3 DEF Steady
  <2>5. /\ counter' = [counter EXCEPT ![x] = @ - 1]
        /\ counter[x] = 1 => PushHandle(Owner(x))
        /\ counter[x] # 1 => handles' = handles
    BY <1>b DEF Commit
  <2> QED
    BY <1>a, <2>2, <2>3, <2>4, <2>5
<1>2. /\ Made(x) /\ Multi(x) /\ events' = events /\ Owner(x) \in Coros
      /\ counter[x] \in Int /\ counter'[x] = counter[x] - 1
      /\ \A s \in Suspensions : s # x => counter'[s] = counter[s]
  <2>1. counter \in [Suspensions -> Int]
    BY <1>0 DEF SuspTypeOK
  <2>2. /\ Made(x) /\ Multi(x) /\ events' = events /\ Owner(x) \in Coros
    BY <1>0, <1>1, <1>b, ReferredMade, WaitsTyped DEF SuspPCs, Steady
  <2> QED
    BY <1>1, <2>1, <2>2
<1>3. ag[t].ret.pc # "idle"
  <2>1. ~(Len(events[x]) <= 1)
    BY <1>0, <1>2, WaitsTyped DEF Multi
  <2> QED
    BY <1>0, <1>1, <1>b, <2>1 DEF AgentKnows
<1>4. PICK n \in 1..Len(events[x]) :
        /\ Holding(t, x, n)
        /\ \A s \in Suspensions : \A i \in 1..Len(events[s]) :
             Holding(t, s, i)' <=> Holding(t, s, i) /\ ~(s = x /\ i = n)
  BY <1>1, <1>3, <1>b, Carried
<1>5. /\ OnePlace' /\ QueuedOnce' /\ Due(x)' = Due(x) \ {n} /\ n \in Due(x)
      /\ \A s \in Suspensions : s # x => Due(s)' = Due(s)
  BY <1>1, <1>4, PlaceDropped
<1>6. ~Spoilt(Owner(x)) =>
        /\ counter[x] >= Cardinality(Due(x)) /\ counter[x] >= 1
        /\ Uncleared(x) => counter[x] = Cardinality(Due(x))
  <2>1. Cardinality(Due(x)) \in Nat /\ Cardinality(Due(x)) >= 1
    BY <1>0, <1>5, DueFinite
  <2>2. ~Spoilt(Owner(x)) => /\ counter[x] >= Cardinality(Due(x))
                             /\ Uncleared(x) => counter[x] = Cardinality(Due(x))
    BY <1>2 DEF SuspInv, Countdown
  <2> QED
    BY <1>2, <2>1, <2>2
<1>7. Countdown'
  <2>1. CASE Spoilt(Owner(x))
    BY <1>1, <1>2, <1>5, <2>1, CountSpoilt
  <2>2. CASE ~Spoilt(Owner(x))
    <3>1. /\ counter'[x] >= Cardinality(Due(x)')
          /\ Uncleared(x) => counter'[x] = Cardinality(Due(x)')
      <4>1. Cardinality(Due(x)) \in Nat /\ Cardinality(Due(x)') = Cardinality(Due(x)) - 1
        BY <1>0, <1>5, DueFinite
      <4> QED
        BY <1>2, <1>6, <2>2, <4>1
    <3>2. \A s \in Suspensions : Owner(s) \in Coros
      BY DEF Owner, Suspensions
    <3>3. ASSUME NEW s \in Suspensions, Multi(s)', ~Spoilt(Owner(s))'
          PROVE  /\ counter'[s] >= Cardinality(Due(s)')
                 /\ Uncleared(s)' => counter'[s] = Cardinality(Due(s)')
      <4>1. Multi(s) /\ ~Spoilt(Owner(s)) /\ (Uncleared(s)' <=> Uncleared(s))
        <5>1. \A c \in Coros : Spoilt(c) => Spoilt(c)'
          BY <1>0, <1>1, SteadyFacts
        <5>2. (Multi(s)' <=> Multi(s)) /\ (Uncleared(s)' <=> Uncleared(s))
          BY <1>0, <1>1, SteadyFacts
        <5> QED
          BY <3>2, <3>3, <5>1, <5>2 DEF Owner
      <4>2. CASE s = x
        BY <3>1, <4>1, <4>2
      <4>3. CASE s # x
        BY <1>2, <1>5, <4>1, <4>3 DEF SuspInv, Countdown
      <4> QED
        BY <4>2, <4>3
    <3> QED
      BY <3>3 DEF Countdown
  <2> QED
    BY <2>1, <2>2
<1>8. SingleDue'
  BY <1>1, <1>2, <1>5, <1>b, SingleDropped DEF SuspPCs
<1>9. FreshSusp' /\ AgentsKnow' /\ CkptFollows' /\ TimersSingle' /\ SetIsNotified' /\ ag'[t].pc # "running"
  <2>1. CASE counter[x] # 0
    BY <1>1, <2>1, ReturnKept, ReturnFacts
  <2>2. CASE counter[x] = 0
    <3>1. ag'[t].pc = "undo" /\ ag'[t].s = x /\ ag'[t].ret = ag[t].ret
      BY <1>1, <1>b, <2>2
    <3>2. Spoilt(Owner(x))
      BY <1>6, <2>2
    <3>3. AgentKnows(t)'
      <4>1. Spoilt(Owner(x))' /\ Multi(x)'
        BY <1>0, <1>1, <1>2, <3>2, SteadyFacts DEF Owner
      <4>2. /\ ag[t].ret.pc = "idle" => Len(events[x]) <= 1
            /\ ag[t].ret.pc = "notify" => \E i \in 1..Len(events[x]) : events[x][i] = ag[t].ret.e
            /\ ag[t].ret.pc = "added" => ag[t].ret.s = x /\ ag[t].ret.i \in 1..Len(events[x])
        BY <1>0, <1>1, <1>b DEF AgentKnows
      <4>3. Multi(ag[t].s)' /\ Spoilt(Owner(ag[t].s))'
        BY <3>1, <4>1 DEF Multi, Spoilt, Owner
      <4> QED
        BY <1>2, <3>1, <4>2, <4>3 DEF AgentKnows
    <3>4. FreshSusp'
      <4>1. \A s, e : Queued(s, e)' <=> Queued(s, e)
        BY <1>1 DEF Queued
      <4> QED
        BY <1>1, <1>2, <3>1, <4>1, FreshKept DEF SuspInv, FreshSusp
    <3>5. AgentsKnow' /\ CkptFollows'
      BY <1>1, <3>3, KnowKept
    <3>6. TimersSingle'
      BY <1>1 DEF SuspInv, TimersSingle, Steady
    <3>7. SetIsNotified'
      <4>1. \A e \in Events : Notifier(t, e) => Notifier(t, e)'
        BY <1>1, <3>1 DEF Notifier
      <4> QED
        BY <1>1, <4>1, NotifiedKept
    <3> QED
      BY <3>1, <3>4, <3>5, <3>6, <3>7
  <2> QED
    BY <2>1, <2>2
<1>10. OneToken'
  <2>1. \A c \in Coros : Drives(t, c)' <=> Drives(t, c)
    BY <1>1, <1>9 DEF Drives
  <2>2. \A s \in Suspensions : s # x => (Open(s)' <=> Open(s))
    BY <1>0, <1>1, <1>2, SteadyFacts DEF Open
  <2>3. (Open(x) <=> counter[x] > 0) /\ (Open(x)' <=> counter'[x] > 0)
    BY <1>0, <1>1, <1>2, SteadyFacts DEF Open
  <2>4. CASE counter[x] = 1
    <3>1. Open(x) /\ ~Open(x)' /\ PushHandle(Owner(x))
      BY <1>1, <1>2, <2>3, <2>4
    <3> QED
      BY <1>1, <1>2, <2>1, <2>2, <3>1, TokenPassed
  <2>5. CASE counter[x] # 1
    <3>1. Calm(Owner(x)) => (Open(x)' <=> Open(x))
      <4>1. Calm(Owner(x)) => ~Spoilt(Owner(x))
        BY <1>0, <1>2, MultiSpoils
      <4>2. Calm(Owner(x)) => counter[x] > 1
        BY <1>2, <1>6, <2>5, <4>1
      <4> QED
        BY <1>2, <2>3, <4>2
    <3>2. handles' = handles
      BY <1>1, <2>5
    <3> QED
      BY <1>1, <2>1, <2>2, <3>1, <3>2, TokenAside
  <2> QED
    BY <2>4, <2>5
<1> QED
  BY <1>5, <1>7, <1>8, <1>9, <1>10 DEF SuspInv

\* The exchange of `consumed`, by a waker, a timer or an abort.
LEMMA ExchangeToken ==
  ASSUME SuspInv, NEW t \in Agents, Steady(t), finished' = finished, counter' = counter,
         NEW x \in Suspensions, Made(x), ~Multi(x),
         consumed' = [consumed EXCEPT ![x] = TRUE],
         IF consumed[x] THEN UNCHANGED handles ELSE PushHandle(Owner(x)),
         \A c \in Coros : Drives(t, c)' <=> Drives(t, c)
  PROVE  OneToken'
<1>1. consumed'[x] /\ \A s \in Suspensions : s # x => consumed'[s] = consumed[s]
  BY DEF SuspInv, SuspTypeOK
<1>2. \A s \in Suspensions : Multi(s)' <=> Multi(s)
  BY SteadyFacts DEF SuspInv
<1>3. /\ \A s \in Suspensions : s # x => (Open(s)' <=> Open(s))
      /\ ~Open(x)' /\ (Open(x) <=> ~consumed[x])
  BY <1>1, <1>2 DEF Open
<1>4. CASE consumed[x]
  <2>1. UNCHANGED handles /\ \A s \in Suspensions : Open(s)' <=> Open(s)
    BY <1>3, <1>4
  <2> QED
    BY <2>1, TokenKept
<1>5. CASE ~consumed[x]
  <2>1. Open(x) /\ PushHandle(Owner(x))
    BY <1>3, <1>5
  <2> QED
    BY <1>3, <2>1, TokenPassed
<1> QED
  BY <1>4, <1>5

LEMMA CommitSingleKept ==
  ASSUME SuspInv, SuspTypeOK', UNCHANGED program, NEW t \in Agents, Commit(t), ~Multi(ag[t].s)
  PROVE  SuspInv'
<1> USE DEF At, eventVars, suspVars, tokenVars, ckptVars
<1>0. SuspTypeOK /\ AgentKnows(t)
  BY DEF SuspInv, AgentsKnow
<1>a. ag[t].pc = "commit" /\ ag[t].s \in Suspensions
  BY <1>0, SuspShape DEF Commit, SuspPCs
<1>b. PICK x \in Suspensions : x = ag[t].s
  BY <1>a
<1>1. /\ ag[t].pc = "commit" /\ Steady(t) /\ ag'[t] = ag[t].ret
      /\ UNCHANGED <<watchers, counter, finished, timers, flag>>
      /\ consumed' = [consumed EXCEPT ![x] = TRUE]
      /\ IF consumed[x] THEN UNCHANGED handles ELSE PushHandle(Owner(x))
  BY <1>0, <1>b, BecomeFacts DEF Commit, Steady
<1>2. /\ Made(x) /\ ~Multi(x)
      /\ consumed'[x] /\ \A s \in Suspensions : s # x => consumed'[s] = consumed[s]
  <2>1. Made(x) /\ ~Multi(x)
    BY <1>1, <1>b, ReferredMade DEF SuspPCs
  <2> QED
    BY <1>0, <1>1, <2>1 DEF SuspTypeOK
<1>3. OnePlace' /\ QueuedOnce' /\ \A s \in Suspensions : s # x => Due(s)' = Due(s)
  <2>1. CASE ag[t].ret.pc = "idle"
    BY <1>1, <2>1, EmptyHanded, PlaceKept DEF SameDue
  <2>2. CASE ag[t].ret.pc # "idle"
    <3>1. PICK n \in 1..Len(events[x]) :
            /\ Holding(t, x, n)
            /\ \A s \in Suspensions : \A i \in 1..Len(events[s]) :
                 Holding(t, s, i)' <=> Holding(t, s, i) /\ ~(s = x /\ i = n)
      BY <1>1, <1>b, <2>2, Carried
    <3> QED
      BY <1>1, <3>1, PlaceDropped
  <2> QED
    BY <2>1, <2>2
<1>4. FreshSusp' /\ AgentsKnow' /\ CkptFollows' /\ TimersSingle' /\ SetIsNotified'
  BY <1>1, <1>2, <1>b, ReturnKept
<1>5. Countdown'
  BY <1>1, <1>2, <1>3, CountSpoilt
<1>6. SingleDue'
  BY <1>1, <1>2, <1>3, <1>b, SingleDropped DEF SuspPCs
<1>7. OneToken'
  <2>1. ag'[t].pc # "running"
    BY <1>1, ReturnFacts
  <2>2. \A c \in Coros : Drives(t, c)' <=> Drives(t, c)
    BY <1>1, <2>1 DEF Drives
  <2> QED
    BY <1>1, <1>2, <2>2, ExchangeToken
<1> QED
  BY <1>3, <1>4, <1>5, <1>6, <1>7 DEF SuspInv

\* Steps of an agent with no waker in its hands that is, or becomes, idle or drives a coroutine.
LEMMA PlainKept ==
  ASSUME SuspInv, SuspTypeOK', NEW t \in Agents, Steady(t),
         ag[t].pc \in {"idle", "running", "error", "consume", "unnotify"}, ag'[t].pc \in {"idle", "running"},
         UNCHANGED <<watchers, flag, timers>>,
         \A s \in Suspensions : (consumed[s] => consumed'[s]) /\ (~Made(s) => consumed'[s] = consumed[s])
  PROVE  /\ FreshSusp' /\ AgentsKnow' /\ CkptFollows' /\ TimersSingle' /\ SetIsNotified'
         /\ OnePlace' /\ QueuedOnce' /\ SameDue /\ SingleDue'
<1>1. AgentKnows(t)' /\ SameHolding(t) /\ \A e \in Events : ~Notifier(t, e)
  BY DEF AgentKnows, SameHolding, Holding, SuspPCs, Notifier
<1>2. FreshSusp'
  <2>1. \A s, e : Queued(s, e)' <=> Queued(s, e)
    BY DEF Queued
  <2>2. ag'[t].pc \notin SuspPCs
    BY DEF SuspPCs
  <2> QED
    BY <2>1, <2>2, FreshKept DEF SuspInv, FreshSusp
<1>3. AgentsKnow' /\ CkptFollows'
  BY <1>1, KnowKept
<1>4. TimersSingle'
  BY DEF SuspInv, TimersSingle, Steady
<1>5. SetIsNotified'
  BY <1>1, NotifiedKept
<1>6. OnePlace' /\ QueuedOnce' /\ SameDue
  BY <1>1, PlaceKept
<1>7. SingleDue'
  BY <1>6, SingleKept
<1> QED
  BY <1>2, <1>3, <1>4, <1>5, <1>6, <1>7

\* Undo, the exchange and the store of error, and unnotify.
LEMMA EndKept ==
  ASSUME SuspInv, SuspTypeOK', UNCHANGED program, NEW t \in Agents,
         Undo(t) \/ (Error(t) /\ ~Multi(ag[t].s)) \/ Consume(t) \/ Unnotify(t)
  PROVE  SuspInv'
<1> USE DEF At, eventVars, suspVars, tokenVars, ckptVars
<1>0. SuspTypeOK /\ AgentKnows(t) /\ counter \in [Suspensions -> Int]
  BY DEF SuspInv, AgentsKnow, SuspTypeOK
<1>1. CASE Undo(t)
  <2>0. ag[t].pc = "undo" /\ ag[t].s \in Suspensions
    BY <1>0, <1>1, SuspShape DEF Undo, SuspPCs
  <2>1. PICK x \in Suspensions : x = ag[t].s
    BY <2>0
  <2>2. /\ Steady(t) /\ ag'[t] = ag[t].ret /\ UNCHANGED <<watchers, consumed, handles, finished, timers, flag>>
        /\ counter' = [counter EXCEPT ![x] = @ + 1]
    BY <1>0, <1>1, <2>1, BecomeFacts DEF Undo, Steady
  <2>3. Multi(x) /\ Spoilt(Owner(x)) /\ ~Calm(Owner(x))
    BY <1>0, <2>0, <2>1, MultiSpoils DEF AgentKnows
  <2>4. \A s \in Suspensions : s # x => counter'[s] = counter[s]
    BY <1>0, <2>2
  <2>5. FreshSusp' /\ AgentsKnow' /\ CkptFollows' /\ TimersSingle' /\ SetIsNotified' /\ ag'[t].pc # "running"
    BY <2>0, <2>2, ReturnKept, ReturnFacts
  <2>6. OnePlace' /\ QueuedOnce' /\ SameDue
    BY <2>0, <2>2, EmptyHanded, PlaceKept
  <2>7. Countdown'
    BY <2>2, <2>3, <2>4, <2>6, CountSpoilt DEF SameDue
  <2>8. SingleDue'
    BY <2>0, <2>2, <2>6, SingleKept
  <2>9. OneToken'
    <3>1. \A s \in Suspensions : Calm(Owner(s)) => (Open(s)' <=> Open(s))
      BY <1>0, <2>2, <2>3, <2>4, SteadyFacts DEF Open
    <3>2. \A c \in Coros : Drives(t, c)' <=> Drives(t, c)
      BY <2>0, <2>5 DEF Drives
    <3> QED
      BY <2>2, <3>1, <3>2, TokenAside
  <2> QED
    BY <2>5, <2>6, <2>7, <2>8, <2>9 DEF SuspInv
<1>2. CASE Error(t) /\ ~Multi(ag[t].s)
  <2>0. ag[t].pc = "error" /\ ag[t].s \in Suspensions
    BY <1>0, <1>2, SuspShape DEF Error, SuspPCs
  <2>1. PICK x \in Suspensions : x = ag[t].s
    BY <2>0
  <2>2. /\ Steady(t) /\ ag'[t] = Idle /\ UNCHANGED <<watchers, counter, finished, timers, flag>>
        /\ consumed' = [consumed EXCEPT ![x] = TRUE]
        /\ IF consumed[x] THEN UNCHANGED handles ELSE PushHandle(Owner(x))
    BY <1>0, <1>2, <2>1, BecomeFacts DEF Error, Steady
  <2>3. /\ Made(x) /\ ~Multi(x) /\ ag'[t].pc = "idle"
        /\ consumed'[x] /\ \A s \in Suspensions : s # x => consumed'[s] = consumed[s]
    <3>1. Made(x) /\ ~Multi(x) /\ ag'[t].pc = "idle"
      BY <1>2, <2>0, <2>1, <2>2, ReferredMade DEF SuspPCs, Idle
    <3> QED
      BY <1>0, <2>2, <3>1 DEF SuspTypeOK
  <2>4. /\ FreshSusp' /\ AgentsKnow' /\ CkptFollows' /\ TimersSingle' /\ SetIsNotified'
        /\ OnePlace' /\ QueuedOnce' /\ SameDue /\ SingleDue'
    <3>1. \A s \in Suspensions : (consumed[s] => consumed'[s]) /\ (~Made(s) => consumed'[s] = consumed[s])
      BY <2>3
    <3> QED
      BY <2>0, <2>2, <2>3, <3>1, PlainKept
  <2>5. Countdown'
    BY <2>2, <2>4, CountKept
  <2>6. OneToken'
    <3>1. \A c \in Coros : Drives(t, c)' <=> Drives(t, c)
      BY <2>0, <2>3 DEF Drives
    <3> QED
      BY <2>2, <2>3, <3>1, ExchangeToken
  <2> QED
    BY <2>4, <2>5, <2>6 DEF SuspInv
<1>3. CASE Consume(t)
  <2>0. ag[t].pc = "consume" /\ ag[t].s \in Suspensions
    BY <1>0, <1>3, SuspShape DEF Consume, SuspPCs
  <2>1. PICK x \in Suspensions : x = ag[t].s
    BY <2>0
  <2>2. /\ Steady(t) /\ ag'[t] = Idle /\ UNCHANGED <<watchers, consumed, finished, timers, flag>>
        /\ counter' = [counter EXCEPT ![x] = 0] /\ PushHandle(Owner(x))
    BY <1>0, <1>3, <2>1, BecomeFacts DEF Consume, Steady
  <2>3. Multi(x) /\ Spoilt(Owner(x)) /\ ~Calm(Owner(x)) /\ Owner(x) \in Coros
    <3>1. Multi(x) /\ Aborted(x) /\ Owner(x) \in Coros /\ x[2] \in 1..MaxWaits /\ x = <<Owner(x), x[2]>>
      BY <1>0, <2>0, <2>1, WaitsTyped DEF AgentKnows
    <3>2. linked[<<Owner(x), x[2]>>] /\ aborted[Owner(x)]
      BY <3>1 DEF Aborted
    <3>3. Spoilt(Owner(x))
      BY <3>1, <3>2 DEF Spoilt, SuspInv, CkptFollows
    <3> QED
      BY <1>0, <3>1, <3>3, MultiSpoils
  <2>4. \A s \in Suspensions : s # x => counter'[s] = counter[s]
    BY <1>0, <2>2
  <2>5. ag'[t].pc = "idle"
    BY <2>2 DEF Idle
  <2>6. /\ FreshSusp' /\ AgentsKnow' /\ CkptFollows' /\ TimersSingle' /\ SetIsNotified'
        /\ OnePlace' /\ QueuedOnce' /\ SameDue /\ SingleDue'
    BY <2>0, <2>2, <2>5, PlainKept
  <2>7. Countdown'
    BY <2>2, <2>3, <2>4, <2>6, CountSpoilt DEF SameDue
  <2>8. OneToken'
    <3>1. \A s \in Suspensions : Calm(Owner(s)) => (Open(s)' <=> Open(s))
      BY <1>0, <2>2, <2>3, <2>4, SteadyFacts DEF Open
    <3>2. \A c \in Coros : Drives(t, c)' <=> Drives(t, c)
      BY <2>0, <2>5 DEF Drives
    <3>3. \A c \in Coros : Calm(c) => handles'[c] = handles[c]
      BY <1>0, <2>2, <2>3 DEF PushHandle, SuspTypeOK
    <3> QED
      BY <2>2, <3>1, <3>2, <3>3, TokenAside
  <2> QED
    BY <2>6, <2>7, <2>8 DEF SuspInv
<1>4. CASE Unnotify(t)
  <2>0. ag[t].pc = "unnotify" /\ ag[t].e \in Events /\ ag[t].e \in program.clears
    BY <1>0, <1>4, AgentShape DEF Unnotify, AgentKnows
  <2>1. PICK e \in Events : e = ag[t].e
    BY <2>0
  <2>2. /\ Steady(t) /\ ag'[t] = Idle /\ UNCHANGED <<watchers, consumed, handles, finished, timers, flag>>
        /\ counter' = [s \in Suspensions |->
                         IF s \in {watchers[e][i] : i \in DOMAIN watchers[e]} /\ Multi(s)
                           THEN counter[s] + 1 ELSE counter[s]]
    BY <1>0, <1>4, <2>1, BecomeFacts DEF Unnotify, Steady
  <2>3. \A s \in Suspensions : counter'[s] = IF Queued(s, e) /\ Multi(s) THEN counter[s] + 1 ELSE counter[s]
    <3>1. \A s \in Suspensions : s \in {watchers[e][i] : i \in DOMAIN watchers[e]} <=> Queued(s, e)
      BY DEF Queued
    <3> QED
      BY <2>2, <3>1
  <2>4. \A s \in Suspensions : Queued(s, e) => ~Uncleared(s) /\ Due(s) # {}
    <3> SUFFICES ASSUME NEW s \in Suspensions, Queued(s, e) PROVE ~Uncleared(s) /\ Due(s) # {}
      OBVIOUS
    <3>1. WaitsFor(s, e)
      BY <1>0, QueuedContent DEF SuspInv, QueuedOnce
    <3>2. PICK i \in 1..Len(events[s]) : events[s][i] = e
      BY <3>1 DEF WaitsFor
    <3>3. i \in Due(s)
      BY <3>2 DEF Due
    <3> QED
      BY <2>0, <2>1, <3>2, <3>3 DEF Uncleared
  <2>5. ag'[t].pc = "idle"
    BY <2>2 DEF Idle
  <2>6. /\ FreshSusp' /\ AgentsKnow' /\ CkptFollows' /\ TimersSingle' /\ SetIsNotified'
        /\ OnePlace' /\ QueuedOnce' /\ SameDue /\ SingleDue'
    BY <2>0, <2>2, <2>5, PlainKept
  <2>7. ASSUME NEW s \in Suspensions, Multi(s), ~Spoilt(Owner(s))
        PROVE  /\ counter'[s] >= Cardinality(Due(s))
               /\ Uncleared(s) => counter'[s] = Cardinality(Due(s))
               /\ counter[s] > 0 <=> counter'[s] > 0
    <3>1. counter[s] \in Int /\ Cardinality(Due(s)) \in Nat /\ (Due(s) # {} => Cardinality(Due(s)) >= 1)
      BY <1>0, DueFinite
    <3>2. /\ counter[s] >= Cardinality(Due(s))
          /\ Uncleared(s) => counter[s] = Cardinality(Due(s))
      BY <2>7 DEF SuspInv, Countdown
    <3> QED
      BY <2>3, <2>4, <3>1, <3>2
  <2>8. Countdown'
    <3>1. \A s \in Suspensions : Owner(s) \in Coros
      BY DEF Owner, Suspensions
    <3>2. ASSUME NEW s \in Suspensions, Multi(s)', ~Spoilt(Owner(s))'
          PROVE  /\ counter'[s] >= Cardinality(Due(s)')
                 /\ Uncleared(s)' => counter'[s] = Cardinality(Due(s)')
      <4>1. \A c \in Coros : Spoilt(c) => Spoilt(c)'
        BY <1>0, <2>2, SteadyFacts
      <4>2. (Multi(s)' <=> Multi(s)) /\ (Uncleared(s)' <=> Uncleared(s))
        BY <1>0, <2>2, SteadyFacts
      <4>3. Multi(s) /\ ~Spoilt(Owner(s)) /\ Due(s)' = Due(s)
        BY <2>6, <3>1, <3>2, <4>1, <4>2 DEF Owner, SameDue
      <4> QED
        BY <2>7, <4>2, <4>3
    <3> QED
      BY <3>2 DEF Countdown
  <2>9. OneToken'
    <3>1. ASSUME NEW s \in Suspensions, Calm(Owner(s)) PROVE Open(s)' <=> Open(s)
      <4>1. Multi(s)' <=> Multi(s)
        BY <1>0, <2>2, SteadyFacts
      <4>2. CASE Multi(s)
        BY <1>0, <2>7, <3>1, <4>1, <4>2, MultiSpoils DEF Open
      <4>3. CASE ~Multi(s)
        BY <2>2, <4>1, <4>3 DEF Open
      <4> QED
        BY <4>2, <4>3
    <3>2. \A c \in Coros : Drives(t, c)' <=> Drives(t, c)
      BY <2>0, <2>5 DEF Drives
    <3> QED
      BY <2>2, <3>1, <3>2, TokenAside
  <2> QED
    BY <2>6, <2>8, <2>9 DEF SuspInv
<1> QED
  BY <1>1, <1>2, <1>3, <1>4

\* The token of c between its handle, its driver and its end; the others keep theirs.
LEMMA TokenMoved ==
  ASSUME SuspInv, SuspTypeOK', NEW t \in Agents, Steady(t), UNCHANGED <<consumed, counter>>, NEW c \in Coros,
         \A d \in Coros : d # c =>
           /\ handles'[d] = handles[d] /\ (d \in finished' <=> d \in finished)
           /\ Drives(t, d)' <=> Drives(t, d),
         \/ /\ handles[c] > 0 /\ handles'[c] = handles[c] - 1 /\ finished' = finished
            /\ ~Drives(t, c) /\ Drives(t, c)'
         \/ /\ Drives(t, c) /\ ~Drives(t, c)' /\ handles'[c] = handles[c] + 1 /\ finished' = finished
         \/ /\ Drives(t, c) /\ ~Drives(t, c)' /\ handles'[c] = handles[c] /\ c \in finished'
  PROVE  OneToken'
<1>0. /\ SuspTypeOK /\ waits' = waits /\ handles[c] \in Nat
      /\ \A u \in Agents, d \in Coros : u # t => (Drives(u, d)' <=> Drives(u, d))
  BY DEF SuspInv, SuspTypeOK, Steady, Drives
<1>1. \A s \in Suspensions : Open(s)' <=> Open(s)
  BY <1>0, SteadyFacts DEF Open
<1>2. \A d \in Coros : Awaits(d)' <=> Awaits(d)
  <2>1. \A d \in Coros : waits[d] > 0 => Current(d) \in Suspensions
    BY <1>0, ProgramsAssumption DEF SuspTypeOK, Current, Suspensions
  <2>2. \A d \in Coros : Current(d)' = Current(d)
    BY <1>0 DEF Current
  <2> QED
    BY <1>0, <1>1, <2>1, <2>2 DEF Awaits
<1>3. \A d \in Coros : \A k \in 1..MaxWaits : Open(<<d, k>>)' <=> Open(<<d, k>>)
  BY <1>1 DEF Suspensions
<1>4. \A d \in Coros : d # c => (Driven(d)' <=> Driven(d))
  BY <1>0 DEF Driven
<1> SUFFICES ASSUME NEW d \in Coros, Calm(d)'
             PROVE  /\ handles'[d] \in {0, 1}
                    /\ d \in finished' => handles'[d] = 0 /\ ~Driven(d)' /\ ~Awaits(d)'
                    /\ d \notin finished' => handles'[d] = 1 \/ Driven(d)' \/ Awaits(d)'
                    /\ handles'[d] = 1 => ~Driven(d)' /\ ~Awaits(d)'
                    /\ Driven(d)' => ~Awaits(d)'
                    /\ \A u, v \in Agents : Drives(u, d)' /\ Drives(v, d)' => u = v
                    /\ \A k \in 1..MaxWaits : k < waits'[d] => ~Open(<<d, k>>)'
  BY DEF OneToken
<1>5. Calm(d)
  BY <1>0, SteadyFacts
<1>6. /\ handles[d] \in {0, 1}
      /\ d \in finished => handles[d] = 0 /\ ~Driven(d) /\ ~Awaits(d)
      /\ d \notin finished => handles[d] = 1 \/ Driven(d) \/ Awaits(d)
      /\ handles[d] = 1 => ~Driven(d) /\ ~Awaits(d)
      /\ Driven(d) => ~Awaits(d)
      /\ \A u, v \in Agents : Drives(u, d) /\ Drives(v, d) => u = v
      /\ \A k \in 1..MaxWaits : k < waits[d] => ~Open(<<d, k>>)
  BY <1>5 DEF SuspInv, OneToken
<1>7. \A k \in 1..MaxWaits : k < waits'[d] => ~Open(<<d, k>>)'
  BY <1>0, <1>3, <1>6
<1>8. CASE d # c
  <2>1. \A u \in Agents : Drives(u, d)' <=> Drives(u, d)
    BY <1>0, <1>8
  <2> QED
    BY <1>2, <1>4, <1>6, <1>7, <1>8, <2>1
<1>9. CASE d = c /\ ~Drives(t, c)
  <2>1. handles[c] = 1 /\ handles'[c] = 0 /\ ~Driven(c) /\ ~Awaits(c) /\ c \notin finished'
    BY <1>0, <1>6, <1>9
  <2>2. \A u \in Agents : Drives(u, c)' <=> u = t
    BY <1>0, <1>9, <2>1 DEF Driven
  <2> QED
    BY <1>2, <1>7, <1>9, <2>1, <2>2 DEF Driven
<1>10. CASE d = c /\ Drives(t, c)
  <2>1. Driven(c) /\ handles[c] = 0 /\ ~Awaits(c) /\ c \notin finished
    BY <1>6, <1>10 DEF Driven
  <2>2. \A u \in Agents : ~Drives(u, c)'
    BY <1>0, <1>6, <1>10
  <2>3. ~Driven(c)' /\ ~Awaits(c)'
    BY <1>2, <2>1, <2>2 DEF Driven
  <2>4. \/ handles'[c] = 1 /\ c \notin finished'
        \/ handles'[c] = 0 /\ c \in finished'
    BY <1>10, <2>1
  <2> QED
    BY <1>7, <1>10, <2>2, <2>3, <2>4
<1> QED
  BY <1>8, <1>9, <1>10

\* A coroutine is driven, returns, or yields.
LEMMA DriverKept ==
  ASSUME SuspInv, SuspTypeOK', UNCHANGED program, NEW t \in Agents,
         Finish(t) \/ YieldOther(t) \/ \E c \in Coros : RunCoro(t, c)
  PROVE  SuspInv'
<1> USE DEF At, eventVars, suspVars, tokenVars, ckptVars
<1>0. SuspTypeOK /\ handles \in [Coros -> Nat]
  BY DEF SuspInv, SuspTypeOK
<1>1. /\ Steady(t) /\ UNCHANGED <<watchers, flag, timers, consumed, counter>>
      /\ ag[t].pc \in {"idle", "running"} /\ ag'[t].pc \in {"idle", "running"}
  <2>1. CASE Finish(t)
    BY <1>0, <2>1, BecomeFacts DEF Finish, Steady, Idle
  <2>2. CASE YieldOther(t)
    BY <1>0, <2>2, BecomeFacts DEF YieldOther, Steady, Idle
  <2>3. ASSUME NEW c \in Coros, RunCoro(t, c)
        PROVE  /\ Steady(t) /\ UNCHANGED <<watchers, flag, timers, consumed, counter>>
               /\ ag[t].pc \in {"idle", "running"} /\ ag'[t].pc \in {"idle", "running"}
    BY <1>0, <2>3, BecomeFacts DEF RunCoro, Steady
  <2> QED
    BY <2>1, <2>2, <2>3
<1>2. /\ FreshSusp' /\ AgentsKnow' /\ CkptFollows' /\ TimersSingle' /\ SetIsNotified'
      /\ OnePlace' /\ QueuedOnce' /\ SameDue /\ SingleDue'
  BY <1>1, PlainKept
<1>3. Countdown'
  BY <1>1, <1>2, CountKept
<1>4. OneToken'
  <2>1. CASE Finish(t)
    <3>0. ag[t].pc = "running" /\ ag[t].c \in Coros
      BY <1>0, <2>1, AgentShape DEF Finish
    <3>1. PICK c \in Coros : c = ag[t].c
      BY <3>0
    <3>2. ag'[t].pc = "idle" /\ finished' = finished \cup {c} /\ handles' = handles
      BY <1>0, <2>1, <3>1, BecomeFacts DEF Finish, Idle
    <3>3. Drives(t, c) /\ \A d \in Coros : ~Drives(t, d)' /\ (d # c => ~Drives(t, d))
      BY <3>0, <3>1, <3>2 DEF Drives
    <3>4. \A d \in Coros : d # c =>
            /\ handles'[d] = handles[d] /\ (d \in finished' <=> d \in finished)
            /\ Drives(t, d)' <=> Drives(t, d)
      BY <3>2, <3>3
    <3>5. Drives(t, c) /\ ~Drives(t, c)' /\ handles'[c] = handles[c] /\ c \in finished'
      BY <3>2, <3>3
    <3> QED
      BY <1>1, <3>4, <3>5, TokenMoved
  <2>2. CASE YieldOther(t)
    <3>0. ag[t].pc = "running" /\ ag[t].c \in Coros
      BY <1>0, <2>2, AgentShape DEF YieldOther
    <3>1. PICK c \in Coros : c = ag[t].c
      BY <3>0
    <3>2. ag'[t].pc = "idle" /\ finished' = finished /\ handles' = [handles EXCEPT ![c] = @ + 1]
      BY <1>0, <2>2, <3>1, BecomeFacts DEF YieldOther, PushHandle, Idle
    <3>3. Drives(t, c) /\ \A d \in Coros : ~Drives(t, d)' /\ (d # c => ~Drives(t, d))
      BY <3>0, <3>1, <3>2 DEF Drives
    <3>4. \A d \in Coros : d # c =>
            /\ handles'[d] = handles[d] /\ (d \in finished' <=> d \in finished)
            /\ Drives(t, d)' <=> Drives(t, d)
      BY <1>0, <3>2, <3>3
    <3>5. Drives(t, c) /\ ~Drives(t, c)' /\ handles'[c] = handles[c] + 1 /\ finished' = finished
      BY <1>0, <3>2, <3>3
    <3> QED
      BY <1>1, <3>4, <3>5, TokenMoved
  <2>3. ASSUME NEW c \in Coros, RunCoro(t, c) PROVE OneToken'
    <3>1. /\ ag[t].pc = "idle" /\ ag'[t] = [pc |-> "running", c |-> c] /\ finished' = finished
          /\ handles[c] > 0 /\ handles' = [handles EXCEPT ![c] = @ - 1]
      BY <1>0, <2>3, BecomeFacts DEF RunCoro
    <3>2. Drives(t, c)' /\ \A d \in Coros : ~Drives(t, d) /\ (d # c => ~Drives(t, d)')
      BY <3>1 DEF Drives
    <3>4. \A d \in Coros : d # c =>
            /\ handles'[d] = handles[d] /\ (d \in finished' <=> d \in finished)
            /\ Drives(t, d)' <=> Drives(t, d)
      BY <1>0, <3>1, <3>2
    <3>5. handles[c] > 0 /\ handles'[c] = handles[c] - 1 /\ finished' = finished /\ ~Drives(t, c) /\ Drives(t, c)'
      BY <1>0, <3>1, <3>2
    <3> QED
      BY <1>1, <3>4, <3>5, TokenMoved
  <2> QED
    BY <2>1, <2>2, <2>3
<1> QED
  BY <1>2, <1>3, <1>4 DEF SuspInv

-----------------------------------------------------------------------------
\* A suspension that is made.

LEMMA IntervalSize == \A n \in Nat : Cardinality(1..n) = n
<1> TAKE n \in Nat
<1>1. 1 \in Int /\ n \in Int
  OBVIOUS
<1>2. Cardinality(1..n) = IF 1 > n THEN 0 ELSE n - 1 + 1
  BY <1>1, FS_Interval, Zenon
<1> QED
  BY <1>2

LEMMA AwaitKept ==
  ASSUME SuspInv, SuspTypeOK', UNCHANGED program, NEW t \in Agents, NEW l \in program.waits, NEW tm \in BOOLEAN,
         Await(t, l, tm)
  PROVE  SuspInv'
<1> USE DEF At, eventVars, suspVars, tokenVars, ckptVars
<1>0. SuspTypeOK /\ ag[t].pc = "running" /\ ag[t].c \in Coros
  BY AgentShape DEF SuspInv, Await
<1>1. PICK c \in Coros : c = ag[t].c
  BY <1>0
<1>2. waits[c] \in Nat /\ waits[c] + 1 \in 1..MaxWaits /\ l \in Seq(Events) /\ Len(l) \in Nat /\ MaxWaits \in Nat
  <2>1. waits \in [Coros -> 0..MaxWaits] /\ waits[c] + 1 <= program.max
    BY <1>0, <1>1 DEF Await, SuspTypeOK
  <2> QED
    BY <1>0, <2>1, WaitsTyped
<1>3. PICK k \in 1..MaxWaits : k = waits[c] + 1
  <2>1. PICK k \in 1..MaxWaits : k = waits[c] + 1
    BY <1>2
  <2> QED
    BY <2>1
<1> DEFINE x == <<c, k>>
<1>4. x \in Suspensions /\ Owner(x) = c /\ x[2] = k
  BY DEF Suspensions, Owner
<1>5. /\ tm => Len(l) = 1
      /\ l = <<>> => ~hasCkpt[c]
      /\ waits' = [waits EXCEPT ![c] = k]
      /\ events' = [events EXCEPT ![x] = l]
      /\ timed' = [timed EXCEPT ![x] = tm]
      /\ counter' = [counter EXCEPT ![x] = Len(l)]
      /\ linked' = [linked EXCEPT ![x] = hasCkpt[c] \/ l = <<>>]
      /\ hasCkpt' = [hasCkpt EXCEPT ![c] = @ \/ l = <<>>]
      /\ ckpt' = [ckpt EXCEPT ![c] = IF hasCkpt'[c] THEN k ELSE @]
      /\ Become(t, IF l = <<>> THEN [pc |-> "checkpoint", s |-> x] ELSE Registering(x, 1))
      /\ UNCHANGED <<flag, watchers, mutex, consumed, handles, timers, aborted, finished>>
  BY <1>1, <1>3 DEF Await
<1>6. /\ waits'[c] = k /\ \A d \in Coros : d # c => waits'[d] = waits[d]
      /\ events'[x] = l /\ \A s \in Suspensions : s # x => events'[s] = events[s]
      /\ timed'[x] = tm /\ \A s \in Suspensions : s # x => timed'[s] = timed[s]
  BY <1>0, <1>4, <1>5 DEF SuspTypeOK
<1>7. /\ counter'[x] = Len(l) /\ \A s \in Suspensions : s # x => counter'[s] = counter[s]
      /\ (linked'[x] <=> hasCkpt[c] \/ l = <<>>) /\ \A s \in Suspensions : s # x => linked'[s] = linked[s]
      /\ (hasCkpt'[c] <=> hasCkpt[c] \/ l = <<>>) /\ \A d \in Coros : d # c => hasCkpt'[d] = hasCkpt[d]
  BY <1>0, <1>4, <1>5, ZenonT(40) DEF SuspTypeOK
<1>8. /\ ckpt'[c] = IF hasCkpt'[c] THEN k ELSE ckpt[c]
      /\ \A d \in Coros : d # c => ckpt'[d] = ckpt[d]
  BY <1>0, <1>5 DEF SuspTypeOK
<1>9. /\ ag'[t] = IF l = <<>> THEN [pc |-> "checkpoint", s |-> x] ELSE [pc |-> "register", s |-> x, i |-> 1]
      /\ \A u \in Agents : u # t => ag'[u] = ag[u]
  BY <1>0, <1>5, BecomeFacts DEF Registering
<1>10. /\ ag'[t].pc = IF l = <<>> THEN "checkpoint" ELSE "register"
       /\ ag'[t].s = x /\ (l # <<>> => ag'[t].i = 1)
  BY <1>9
<1> HIDE DEF x
<1>11. /\ ~Made(x) /\ Made(x)'
       /\ \A s \in Suspensions : s # x => (Made(s)' <=> Made(s))
  <2>1. ~Made(x) /\ Made(x)'
    BY <1>2, <1>3, <1>4, <1>6 DEF Made, Owner
  <2>2. ASSUME NEW s \in Suspensions, s # x PROVE Made(s)' <=> Made(s)
    <3>1. Owner(s) \in Coros /\ s[2] \in 1..MaxWaits /\ s = <<Owner(s), s[2]>>
      BY <1>0, WaitsTyped
    <3>2. CASE Owner(s) # c
      BY <1>6, <3>1, <3>2 DEF Made, Owner
    <3>3. CASE Owner(s) = c
      <4>1. s[2] # k
        BY <2>2, <3>1, <3>3 DEF x
      <4>2. s[2] <= k <=> s[2] <= waits[c]
        BY <1>2, <1>3, <3>1, <4>1
      <4> QED
        BY <1>6, <3>3, <4>2 DEF Made, Owner
    <3> QED
      BY <3>2, <3>3
  <2> QED
    BY <2>1, <2>2
<1>12. /\ ~consumed[x] /\ ~timed[x] /\ x \notin timers /\ events[x] = <<>> /\ ~linked[x]
       /\ \A u \in Agents : ag[u].pc \in SuspPCs => ag[u].s # x
       /\ \A e \in Events : ~Queued(x, e)
  BY <1>4, <1>11 DEF SuspInv, FreshSusp, TimersSingle
<1>13. \A s, e : Queued(s, e)' <=> Queued(s, e)
  BY <1>5 DEF Queued
<1>14. FreshSusp'
  BY <1>5, <1>6, <1>7, <1>9, <1>10, <1>11, <1>13 DEF SuspInv, FreshSusp
<1>15. CkptFollows'
  <2>1. ASSUME NEW d \in Coros, d # c
        PROVE  /\ ckpt'[d] = IF hasCkpt'[d] THEN waits'[d] ELSE 0
               /\ hasCkpt'[d] => waits'[d] > 0 /\ linked'[<<d, waits'[d]>>]
               /\ \A j \in 1..MaxWaits : linked'[<<d, j>>] => hasCkpt'[d]
               /\ aborted'[d] => d \in program'.aborts
    <3>1. \A j : <<d, j>> # x
      BY <2>1 DEF x
    <3>2. \A j \in 1..MaxWaits : <<d, j>> \in Suspensions
      BY DEF Suspensions
    <3>3. waits[d] \in 0..MaxWaits
      BY <1>0 DEF SuspTypeOK
    <3>4. /\ ckpt[d] = IF hasCkpt[d] THEN waits[d] ELSE 0
          /\ hasCkpt[d] => waits[d] > 0 /\ linked[<<d, waits[d]>>]
          /\ \A j \in 1..MaxWaits : linked[<<d, j>>] => hasCkpt[d]
          /\ aborted[d] => d \in program.aborts
      BY DEF SuspInv, CkptFollows, Current
    <3> QED
      BY <1>2, <1>5, <1>6, <1>7, <1>8, <2>1, <3>1, <3>2, <3>3, <3>4
  <2>2. /\ ckpt'[c] = IF hasCkpt'[c] THEN waits'[c] ELSE 0
        /\ hasCkpt'[c] => waits'[c] > 0 /\ linked'[<<c, waits'[c]>>]
        /\ \A j \in 1..MaxWaits : linked'[<<c, j>>] => hasCkpt'[c]
        /\ aborted'[c] => c \in program'.aborts
    <3>1. \A j \in 1..MaxWaits : <<c, j>> \in Suspensions
      BY DEF Suspensions
    <3>4. /\ ckpt[c] = IF hasCkpt[c] THEN waits[c] ELSE 0
          /\ \A j \in 1..MaxWaits : linked[<<c, j>>] => hasCkpt[c]
          /\ aborted[c] => c \in program.aborts
      BY DEF SuspInv, CkptFollows
    <3>5. <<c, waits'[c]>> = x /\ waits'[c] > 0
      BY <1>2, <1>3, <1>6 DEF x
    <3> QED
      BY <1>5, <1>6, <1>7, <1>8, <3>1, <3>4, <3>5
  <2> QED
    BY <2>1, <2>2 DEF CkptFollows, Current
<1>16. /\ \A s \in Suspensions : s # x =>
            /\ (Multi(s)' <=> Multi(s)) /\ (Aborted(s)' <=> Aborted(s)) /\ (Uncleared(s)' <=> Uncleared(s))
       /\ \A d \in Coros : (Spoilt(d) => Spoilt(d)') /\ (Calm(d)' => Calm(d))
  <2>1. \A s \in Suspensions : s # x =>
          /\ (Multi(s)' <=> Multi(s)) /\ (Aborted(s)' <=> Aborted(s)) /\ (Uncleared(s)' <=> Uncleared(s))
    BY <1>5, <1>6, <1>7 DEF Multi, Aborted, Uncleared, Owner
  <2>2. \A d \in Coros : (Spoilt(d) => Spoilt(d)') /\ (Calm(d)' => Calm(d))
    BY <1>5, <1>7 DEF Spoilt, Calm, OnlySingle
  <2> QED
    BY <2>1, <2>2
<1>17. AgentsKnow'
  <2>1. AgentKnows(t)'
    <3>1. l # <<>> => 1 \in 1..(Len(l) + 1)
      BY <1>2
    <3> QED
      BY <1>6, <1>10, <3>1 DEF AgentKnows
  <2>2. ASSUME NEW u \in Agents, u # t PROVE AgentKnows(u)'
    <3>1. AgentKnows(u) /\ ag'[u] = ag[u] /\ program' = program /\ aborted' = aborted
      BY <1>5, <1>9, <2>2 DEF SuspInv, AgentsKnow
    <3>2. ag[u].pc \in SuspPCs =>
            /\ ag[u].s \in Suspensions /\ ag[u].s # x /\ events'[ag[u].s] = events[ag[u].s]
            /\ Owner(ag[u].s) \in Coros
      BY <1>0, <1>6, <1>12, SuspShape
    <3>3. ag[u].pc \in SuspPCs =>
            /\ Multi(ag[u].s)' <=> Multi(ag[u].s)
            /\ Aborted(ag[u].s)' <=> Aborted(ag[u].s)
            /\ Spoilt(Owner(ag[u].s)) => Spoilt(Owner(ag[u].s))'
      <4>1. ag[u].pc \in SuspPCs => linked'[ag[u].s] = linked[ag[u].s] /\ (hasCkpt[Owner(ag[u].s)] => hasCkpt'[Owner(ag[u].s)])
        BY <1>7, <3>2
      <4> QED
        BY <3>1, <3>2, <4>1 DEF Multi, Aborted, Spoilt, Owner
    <3> QED
      BY <3>1, <3>2, <3>3 DEF AgentKnows, SuspPCs
  <2> QED
    BY <2>1, <2>2 DEF AgentsKnow
<1>18. TimersSingle'
  BY <1>5, <1>6, <1>12 DEF SuspInv, TimersSingle
<1>19. QueuedOnce'
  <2>1. ASSUME NEW e \in Events, NEW s \in Content(watchers[e]) PROVE WaitsFor(s, e)'
    <3>1. s \in Suspensions /\ Queued(s, e) /\ WaitsFor(s, e)
      <4>1. watchers[e] \in Seq(Suspensions)
        BY <1>0 DEF SuspTypeOK
      <4> QED
        BY <1>0, <4>1, ContentTyped, QueuedContent DEF SuspInv, QueuedOnce
    <3>2. s # x
      BY <1>12, <3>1
    <3> QED
      BY <1>6, <3>1, <3>2 DEF WaitsFor
  <2> QED
    BY <1>5, <2>1 DEF SuspInv, QueuedOnce
<1>20. /\ \A u \in Agents, s \in Suspensions : \A i \in 1..Len(events[s]) :
            s # x => (Holding(u, s, i)' <=> Holding(u, s, i))
       /\ \A u \in Agents : \A i \in 1..Len(l) : Holding(u, x, i)' <=> u = t
  <2>1. ASSUME NEW u \in Agents, NEW s \in Suspensions, NEW i \in 1..Len(events[s]), s # x
        PROVE  Holding(u, s, i)' <=> Holding(u, s, i)
    <3>1. CASE u = t
      BY <1>0, <1>10, <2>1, <3>1 DEF Holding, SuspPCs
    <3>2. CASE u # t
      <4>1. ag'[u] = ag[u] /\ events'[s] = events[s]
        BY <1>6, <1>9, <2>1, <3>2
      <4> QED
        BY <4>1 DEF Holding
    <3> QED
      BY <3>1, <3>2
  <2>2. ASSUME NEW u \in Agents, NEW i \in 1..Len(l) PROVE Holding(u, x, i)' <=> u = t
    <3>0. l # <<>> /\ 1 <= i
      BY <1>2
    <3>1. CASE u = t
      <4>1. ag'[t].pc = "register" /\ ag'[t].s = x /\ ag'[t].i = 1
        BY <1>10, <3>0
      <4> QED
        BY <3>0, <3>1, <4>1 DEF Holding, SuspPCs
    <3>2. CASE u # t
      BY <1>9, <1>12, <3>2 DEF Holding
    <3> QED
      BY <3>1, <3>2
  <2> QED
    BY <2>1, <2>2
<1>21. OnePlace'
  <2> SUFFICES ASSUME NEW s \in Suspensions, NEW i \in 1..Len(events'[s])
               PROVE  /\ \A u, v \in Agents : Holding(u, s, i)' /\ Holding(v, s, i)' => u = v
                      /\ \A u \in Agents : Holding(u, s, i)' => ~Queued(s, events[s][i])'
    BY DEF OnePlace
  <2>1. CASE s = x
    <3>1. \A e \in Events : ~Queued(s, e)'
      BY <1>12, <1>13, <2>1
    <3>2. events'[s][i] \in Events
      BY <1>2, <1>6, <2>1
    <3>3. \A u \in Agents : Holding(u, s, i)' <=> u = t
      BY <1>6, <1>20, <2>1
    <3> QED
      BY <3>1, <3>2, <3>3
  <2>2. CASE s # x
    <3>1. i \in 1..Len(events[s]) /\ events'[s] = events[s]
      BY <1>6, <2>2
    <3>2. /\ \A u, v \in Agents : Holding(u, s, i) /\ Holding(v, s, i) => u = v
          /\ \A u \in Agents : Holding(u, s, i) => ~Queued(s, events[s][i])
      BY <3>1 DEF SuspInv, OnePlace
    <3>3. Queued(s, events[s][i])' <=> Queued(s, events[s][i])
      BY <1>13, <3>1
    <3> QED
      BY <1>20, <2>2, <3>1, <3>2, <3>3
  <2> QED
    BY <2>1, <2>2
<1>22. Due(x)' = 1..Len(l) /\ \A s \in Suspensions : s # x => Due(s)' = Due(s)
  <2>1. Due(x)' = 1..Len(l)
    BY <1>6, <1>20 DEF Due
  <2>2. ASSUME NEW s \in Suspensions, s # x PROVE Due(s)' = Due(s)
    <3>1. events'[s] = events[s] /\ \A u \in Agents : \A i \in 1..Len(events[s]) : Holding(u, s, i)' <=> Holding(u, s, i)
      BY <1>6, <1>20, <2>2
    <3>2. \A i \in 1..Len(events[s]) : Queued(s, events[s][i])' <=> Queued(s, events[s][i])
      BY <1>13, <3>1
    <3> QED
      BY <3>1, <3>2 DEF Due
  <2> QED
    BY <2>1, <2>2
<1>23. Countdown'
  <2> SUFFICES ASSUME NEW s \in Suspensions, Multi(s)', ~Spoilt(Owner(s))'
               PROVE  /\ counter'[s] >= Cardinality(Due(s)')
                      /\ Uncleared(s)' => counter'[s] = Cardinality(Due(s)')
    BY DEF Countdown
  <2>1. CASE s = x
    <3>1. Cardinality(1..Len(l)) = Len(l)
      BY <1>2, IntervalSize
    <3> QED
      BY <1>2, <1>7, <1>22, <2>1, <3>1
  <2>2. CASE s # x
    <3>1. Owner(s) \in Coros
      BY DEF Owner, Suspensions
    <3>2. Multi(s) /\ ~Spoilt(Owner(s)) /\ (Uncleared(s)' <=> Uncleared(s))
      BY <1>16, <2>2, <3>1 DEF Owner
    <3> QED
      BY <1>7, <1>22, <2>2, <3>2 DEF SuspInv, Countdown
  <2> QED
    BY <2>1, <2>2
<1>24. SingleDue'
  <2> SUFFICES ASSUME NEW s \in Suspensions, Made(s)', ~Multi(s)', ~consumed'[s], ~Aborted(s)'
               PROVE  IF events'[s] = <<>>
                        THEN \E u \in Agents : ag'[u].pc \in {"checkpoint", "resume", "commit"} /\ ag'[u].s = s
                        ELSE 1 \in Due(s)'
    BY DEF SingleDue
  <2>1. CASE s = x
    <3>1. l # <<>> => 1 \in 1..Len(l)
      BY <1>2
    <3> QED
      BY <1>6, <1>10, <1>22, <2>1, <3>1
  <2>2. CASE s # x
    <3>1. Made(s) /\ ~Multi(s) /\ ~consumed[s] /\ ~Aborted(s) /\ events'[s] = events[s]
      BY <1>5, <1>6, <1>11, <1>16, <2>2
    <3>2. CASE events[s] = <<>>
      <4>1. PICK u \in Agents : ag[u].pc \in {"checkpoint", "resume", "commit"} /\ ag[u].s = s
        BY <3>1, <3>2 DEF SuspInv, SingleDue
      <4>2. u # t
        BY <1>0, <4>1
      <4> QED
        BY <1>9, <3>1, <3>2, <4>1, <4>2
    <3>3. CASE events[s] # <<>>
      BY <1>22, <2>2, <3>1, <3>3 DEF SuspInv, SingleDue
    <3> QED
      BY <3>2, <3>3
  <2> QED
    BY <2>1, <2>2
<1>25. SetIsNotified'
  <2>1. \A u \in Agents, e \in Events : Notifier(u, e) => Notifier(u, e)'
    <3>1. \A e \in Events : ~Notifier(t, e)
      BY <1>0 DEF Notifier
    <3> QED
      BY <1>9, <3>1 DEF Notifier
  <2> QED
    BY <1>5, <2>1 DEF SuspInv, SetIsNotified
<1>26. OneToken'
  <2>1. ASSUME NEW d \in Coros, Calm(d)'
        PROVE  /\ handles[d] \in {0, 1}
               /\ d \in finished => handles[d] = 0 /\ ~Driven(d) /\ ~Awaits(d)
               /\ d \notin finished => handles[d] = 1 \/ Driven(d) \/ Awaits(d)
               /\ handles[d] = 1 => ~Driven(d) /\ ~Awaits(d)
               /\ Driven(d) => ~Awaits(d)
               /\ \A u, v \in Agents : Drives(u, d) /\ Drives(v, d) => u = v
               /\ \A j \in 1..MaxWaits : j < waits[d] => ~Open(<<d, j>>)
    BY <1>16, <2>1 DEF SuspInv, OneToken
  <2>2. \A s \in Suspensions : s # x => (Open(s)' <=> Open(s))
    BY <1>5, <1>7, <1>16 DEF Open
  <2>3. Open(x)'
    <3>1. CASE Multi(x)'
      <4>1. counter'[x] > 0
        BY <1>2, <1>6, <1>7, <3>1 DEF Multi
      <4> QED
        BY <3>1, <4>1 DEF Open
    <3>2. CASE ~Multi(x)'
      BY <1>5, <1>12, <3>2 DEF Open
    <3> QED
      BY <3>1, <3>2
  <2>4. /\ \A d \in Coros : ~Drives(t, d)'
        /\ \A u \in Agents, d \in Coros : u # t => (Drives(u, d)' <=> Drives(u, d))
        /\ Drives(t, c) /\ \A d \in Coros : d # c => ~Drives(t, d)
    BY <1>0, <1>1, <1>9, <1>10 DEF Drives
  <2>5. ASSUME NEW d \in Coros, d # c, Calm(d)'
        PROVE  /\ (Driven(d)' <=> Driven(d)) /\ (Awaits(d)' <=> Awaits(d))
               /\ \A j \in 1..MaxWaits : j < waits'[d] => ~Open(<<d, j>>)'
               /\ \A u, v \in Agents : Drives(u, d)' /\ Drives(v, d)' => u = v
    <3>1. waits'[d] = waits[d] /\ waits[d] \in 0..MaxWaits
      BY <1>0, <1>6, <2>5 DEF SuspTypeOK
    <3>2. \A j \in 1..MaxWaits : Open(<<d, j>>)' <=> Open(<<d, j>>)
      <4>1. \A j \in 1..MaxWaits : <<d, j>> \in Suspensions /\ <<d, j>> # x
        BY <2>5 DEF Suspensions, x
      <4> QED
        BY <2>2, <4>1
    <3>3. Driven(d)' <=> Driven(d)
      BY <2>4, <2>5 DEF Driven
    <3>4. Awaits(d)' <=> Awaits(d)
      <4>1. Current(d)' = <<d, waits[d]>> /\ Current(d) = <<d, waits[d]>>
        BY <3>1 DEF Current
      <4>2. waits[d] > 0 => (Open(<<d, waits[d]>>)' <=> Open(<<d, waits[d]>>))
        <5>1. PICK j \in 0..MaxWaits : j = waits[d]
          BY <3>1
        <5>2. j > 0 => <<d, j>> \in Suspensions /\ <<d, j>> # x
          BY <1>2, <2>5 DEF Suspensions, x
        <5>3. j > 0 => (Open(<<d, j>>)' <=> Open(<<d, j>>))
          BY <2>2, <5>2
        <5> QED
          BY <3>1, <5>1, <5>3 DEF Open, Multi
      <4> QED
        BY <1>2, <3>1, <4>1, <4>2 DEF Awaits, Open, Multi
    <3> QED
      BY <2>1, <2>4, <2>5, <3>1, <3>2, <3>3, <3>4
  <2>6. ASSUME Calm(c)'
        PROVE  /\ handles[c] = 0 /\ c \notin finished /\ ~Driven(c)' /\ Awaits(c)'
               /\ \A j \in 1..MaxWaits : j < waits'[c] => ~Open(<<c, j>>)'
               /\ \A u, v \in Agents : Drives(u, c)' /\ Drives(v, c)' => u = v
    <3>1. Driven(c)
      BY <2>4 DEF Driven
    <3>2. handles[c] = 0 /\ c \notin finished /\ ~Awaits(c)
      BY <2>1, <2>6, <3>1
    <3>3. \A u \in Agents : ~Drives(u, c)'
      BY <2>1, <2>4, <2>6
    <3>4. Awaits(c)'
      <4>1. waits'[c] > 0 /\ Current(c)' = x
        BY <1>2, <1>3, <1>6 DEF Current, x
      <4> QED
        BY <2>3, <4>1 DEF Awaits, Open, Multi
    <3>5. ASSUME NEW j \in 1..MaxWaits, j < waits'[c] PROVE ~Open(<<c, j>>)'
      <4>1. <<c, j>> \in Suspensions /\ <<c, j>> # x /\ (j < waits[c] \/ j = waits[c])
        BY <1>2, <1>3, <1>6, <3>5 DEF Suspensions, x
      <4>2. ~Open(<<c, j>>)
        <5>1. CASE j < waits[c]
          BY <2>1, <2>6, <5>1
        <5>2. CASE j = waits[c]
          BY <3>2, <5>2 DEF Awaits, Current
        <5> QED
          BY <4>1, <5>1, <5>2
      <4> QED
        BY <2>2, <4>1, <4>2
    <3> QED
      BY <3>2, <3>3, <3>4, <3>5 DEF Driven
  <2>7. ASSUME NEW d \in Coros, Calm(d)'
        PROVE  /\ handles'[d] \in {0, 1}
               /\ d \in finished' => handles'[d] = 0 /\ ~Driven(d)' /\ ~Awaits(d)'
               /\ d \notin finished' => handles'[d] = 1 \/ Driven(d)' \/ Awaits(d)'
               /\ handles'[d] = 1 => ~Driven(d)' /\ ~Awaits(d)'
               /\ Driven(d)' => ~Awaits(d)'
               /\ \A u, v \in Agents : Drives(u, d)' /\ Drives(v, d)' => u = v
               /\ \A j \in 1..MaxWaits : j < waits'[d] => ~Open(<<d, j>>)'
    <3>1. CASE d = c
      BY <1>5, <2>6, <2>7, <3>1
    <3>2. CASE d # c
      BY <1>5, <2>1, <2>5, <2>7, <3>2
    <3> QED
      BY <3>1, <3>2
  <2> QED
    BY <2>7 DEF OneToken
<1> QED
  BY <1>14, <1>15, <1>17, <1>18, <1>19, <1>21, <1>23, <1>24, <1>25, <1>26 DEF SuspInv

-----------------------------------------------------------------------------
\* The theorems.

LEMMA SuspInvInit == SuspInit => SuspInv
<1> SUFFICES ASSUME SuspInit PROVE SuspInv
  OBVIOUS
<1>0. SuspTypeOK
  BY SuspTypeInit
<1>1. /\ \A s \in Suspensions : events[s] = <<>> /\ ~consumed[s] /\ ~linked[s] /\ ~timed[s] /\ ~Multi(s)
      /\ \A s \in Suspensions : Owner(s) \in Coros /\ s[2] \in 1..MaxWaits
      /\ \A t \in Agents : ag[t].pc = "idle"
      /\ timers = {} /\ MaxWaits \in Nat
      /\ \A c \in Coros : waits[c] = 0 /\ ckpt[c] = 0 /\ ~hasCkpt[c] /\ ~aborted[c]
  BY <1>0, WaitsTyped DEF SuspInit, Multi, Idle
<1>2. /\ \A e \in Events : watchers[e] = <<>> /\ ~flag[e]
      /\ \A s, e : e \in Events => ~Queued(s, e)
  BY DEF SuspInit, Queued
<1>3. FreshSusp /\ AgentsKnow /\ TimersSingle
  BY <1>1, <1>2 DEF FreshSusp, AgentsKnow, AgentKnows, TimersSingle, SuspPCs
<1>4. CkptFollows
  BY <1>1 DEF CkptFollows, Suspensions
<1>5. QueuedOnce /\ SetIsNotified
  BY <1>2, SmallContent DEF QueuedOnce, SetIsNotified
<1>6. OnePlace /\ Countdown
  BY <1>1 DEF OnePlace, Countdown, Holding, SuspPCs
<1>7. SingleDue
  <2>1. \A s \in Suspensions : ~Made(s)
    BY <1>1 DEF Made
  <2> QED
    BY <2>1 DEF SingleDue
<1>8. OneToken
  <2>1. \A c \in Coros : ~Driven(c) /\ ~Awaits(c) /\ \A k \in 1..MaxWaits : ~(k < waits[c])
    BY <1>1 DEF Driven, Drives, Awaits
  <2>2. \A c \in Coros : /\ handles[c] = IF c \in program.coros THEN 1 ELSE 0
                         /\ c \in finished <=> c \notin program.coros
    BY DEF SuspInit
  <2>3. \A c \in Coros : \A t, u \in Agents : ~(Drives(t, c) /\ Drives(u, c))
    BY <1>1 DEF Drives
  <2> QED
    BY <2>1, <2>2, <2>3 DEF OneToken
<1> QED
  BY <1>0, <1>3, <1>4, <1>5, <1>6, <1>7, <1>8 DEF SuspInv

LEMMA SuspInvKept ==
  ASSUME SuspInv, SuspTypeOK', UNCHANGED program, NEW t \in Agents, Step(t)
  PROVE  SuspInv'
<1>1. ASSUME Continue(t) PROVE SuspInv'
  <2>1. CASE Checkpoint(t) \/ Added(t) \/ AddTimer(t) \/ NotifyLock(t) \/ AbortLoad(t)
    BY <2>1, MiddleKept
  <2>2. CASE AddWaker(t)
    BY <2>2, AddWakerKept, InsideKept
  <2>3. CASE Resume(t)
    BY <2>3, ResumeAborted, InsideKept
  <2>4. CASE Commit(t)
    BY <2>4, CommitMultiKept, CommitSingleKept
  <2>5. CASE Undo(t) \/ Consume(t) \/ Unnotify(t)
    BY <2>5, EndKept
  <2>6. CASE Error(t)
    BY <2>6, EndKept, InsideKept
  <2>7. CASE Notify(t)
    BY <2>7, NotifyKept, InsideKept
  <2> QED
    BY <1>1, <2>1, <2>2, <2>3, <2>4, <2>5, <2>6, <2>7, Zenon DEF Continue
<1>2. ASSUME DriveCoro(t) PROVE SuspInv'
  BY <1>2, AwaitKept, DriverKept, Zenon DEF DriveCoro
<1>3. ASSUME \/ \E c \in Coros : RunCoro(t, c) \/ Abort(t, c)
             \/ \E e \in Events : Set(t, e) \/ Clear(t, e)
             \/ \E s \in Suspensions : RunTimer(t, s)
      PROVE  SuspInv'
  BY <1>3, BeginKept, DriverKept, Zenon
<1> QED
  BY <1>1, <1>2, <1>3, Zenon DEF Step

LEMMA SuspInvStep == SuspInv /\ [SuspNext]_suspensionVars => SuspInv'
<1> SUFFICES ASSUME SuspInv, [SuspNext]_suspensionVars PROVE SuspInv'
  OBVIOUS
<1>0. SuspTypeOK'
  BY SuspTypeStep DEF SuspInv
<1>1. ASSUME NEW t \in Agents, Step(t), UNCHANGED program PROVE SuspInv'
  BY <1>0, <1>1, SuspInvKept
<1>2. CASE UNCHANGED suspensionVars
  <2>1. UNCHANGED <<program, flag, watchers, mutex, waits, events, timed, linked, consumed, counter, handles,
                    timers, ckpt, hasCkpt, aborted, finished, ag>>
    BY <1>2 DEF suspensionVars, eventVars, suspVars, tokenVars, ckptVars
  <2>2. /\ \A s : /\ (Made(s)' <=> Made(s)) /\ (Multi(s)' <=> Multi(s)) /\ (Aborted(s)' <=> Aborted(s))
                  /\ (Uncleared(s)' <=> Uncleared(s)) /\ (Open(s)' <=> Open(s))
        /\ \A s, e : (Queued(s, e)' <=> Queued(s, e)) /\ (WaitsFor(s, e)' <=> WaitsFor(s, e))
        /\ \A t, s, i : Holding(t, s, i)' <=> Holding(t, s, i)
        /\ \A t, e : Notifier(t, e)' <=> Notifier(t, e)
        /\ \A c : /\ (Spoilt(c)' <=> Spoilt(c)) /\ (Calm(c)' <=> Calm(c)) /\ Current(c)' = Current(c)
                  /\ \A t : Drives(t, c)' <=> Drives(t, c)
    BY <2>1 DEF Made, Multi, Aborted, Uncleared, Open, Queued, WaitsFor, Holding, Notifier, Spoilt, Calm,
                OnlySingle, Current, Drives, Owner
  <2>3. \A s : Due(s)' = Due(s)
    BY <2>1, <2>2 DEF Due
  <2>4. \A c : (Driven(c)' <=> Driven(c)) /\ (Awaits(c)' <=> Awaits(c))
    BY <2>1, <2>2 DEF Driven, Awaits, Open, Multi, Current
  <2>5. FreshSusp'
    BY <2>1, <2>2 DEF SuspInv, FreshSusp
  <2>6. CkptFollows' /\ TimersSingle'
    BY <2>1 DEF SuspInv, CkptFollows, TimersSingle, Current
  <2>7. AgentsKnow'
    BY <2>1 DEF SuspInv, AgentsKnow, AgentKnows, Aborted, Multi, Spoilt, Owner
  <2>8. QueuedOnce' /\ SetIsNotified'
    BY <2>1, <2>2 DEF SuspInv, QueuedOnce, SetIsNotified
  <2>9. OnePlace'
    BY <2>1, <2>2 DEF SuspInv, OnePlace, Queued
  <2>10. Countdown'
    BY <2>1, <2>2, <2>3 DEF SuspInv, Countdown, Spoilt, Owner
  <2>11. SingleDue'
    BY <2>1, <2>2, <2>3 DEF SuspInv, SingleDue
  <2>12. OneToken'
    BY <2>1, <2>2, <2>4 DEF SuspInv, OneToken
  <2> QED
    BY <1>0, <2>5, <2>6, <2>7, <2>8, <2>9, <2>10, <2>11, <2>12 DEF SuspInv
<1> QED
  BY <1>1, <1>2 DEF SuspNext, Rest

\* A coroutine that has a token has it once.
LEMMA TokenCounted ==
  ASSUME SuspInv, NEW c \in Coros, Calm(c)
  PROVE  handles[c] + Cardinality(Running(c)) <= IF c \in finished THEN 0 ELSE 1
<1>1. /\ handles[c] \in {0, 1}
      /\ c \in finished => handles[c] = 0 /\ ~Driven(c)
      /\ handles[c] = 1 => ~Driven(c)
      /\ \A t, u \in Agents : Drives(t, c) /\ Drives(u, c) => t = u
  BY DEF SuspInv, OneToken
<1>2. CASE ~Driven(c)
  <2>1. Running(c) = {}
    BY <1>2 DEF Driven, Drives, Running, At
  <2>2. Cardinality(Running(c)) = 0
    BY <2>1, FS_EmptySet
  <2> QED
    BY <1>1, <2>2
<1>3. CASE Driven(c)
  <2>1. PICK t \in Agents : Drives(t, c)
    BY <1>3 DEF Driven
  <2>2. Running(c) = {t}
    BY <1>1, <2>1 DEF Drives, Running, At
  <2>3. Cardinality(Running(c)) = 1
    BY <2>2, FS_Singleton
  <2> QED
    BY <1>1, <1>3, <2>3
<1> QED
  BY <1>2, <1>3

LEMMA SuspOneResume == SuspInv => OneResume
<1> SUFFICES ASSUME SuspInv, program.aborts = {} \/ (\A l \in program.waits : Len(l) <= 1), NEW c \in Coros
             PROVE  handles[c] + Cardinality(Running(c)) <= IF c \in finished THEN 0 ELSE 1
  BY DEF OneResume, SingleDriver
<1>1. aborted[c] => c \in program.aborts
  BY DEF SuspInv, CkptFollows
<1>2. Calm(c)
  BY <1>1 DEF Calm, Spoilt, OnlySingle
<1> QED
  BY <1>2, TokenCounted

\* What is known of a coroutine that is parked, when no call is under way.
LEMMA ParkedFacts ==
  ASSUME SuspInv, Quiet, NEW c \in Coros, Parked(c), ~Aborted(Current(c))
  PROVE  /\ Current(c) \in Suspensions /\ Made(Current(c)) /\ Open(Current(c)) /\ ~Spoilt(c)
         /\ \A t \in Agents : ag[t].pc \notin SuspPCs
         /\ Due(Current(c)) = {i \in 1..Len(events[Current(c)]) : Queued(Current(c), events[Current(c)][i])}
         /\ \A e \in Events : Queued(Current(c), e) => ~flag[e]
<1>1. ~Spoilt(c)
  BY DEF SuspInv, CkptFollows, Spoilt, Aborted, Current, Owner
<1>2. ~Driven(c)
  BY DEF Parked, Running, At, Driven, Drives
<1>3. Awaits(c)
  BY <1>1, <1>2 DEF SuspInv, OneToken, Calm, Parked
<1>4. waits[c] \in 1..MaxWaits /\ Open(Current(c))
  <2>1. waits[c] \in 0..MaxWaits /\ waits[c] > 0
    BY <1>3 DEF SuspInv, SuspTypeOK, Awaits
  <2> QED
    BY <1>3, <2>1, ProgramsAssumption DEF Awaits
<1>5. Current(c) \in Suspensions /\ Made(Current(c))
  BY <1>4 DEF Current, Suspensions, Made, Owner
<1>6. \A t \in Agents : ag[t].pc \notin SuspPCs
  BY DEF Quiet, SuspPCs
<1>7. \A t \in Agents, e \in Events : ~Notifier(t, e)
  BY DEF Quiet, Notifier
<1>8. ASSUME NEW e \in Events, Queued(Current(c), e) PROVE ~flag[e]
  <2>1. watchers[e] # <<>>
    BY <1>8 DEF Queued
  <2> QED
    BY <1>7, <2>1 DEF SuspInv, SetIsNotified
<1>9. Due(Current(c)) = {i \in 1..Len(events[Current(c)]) : Queued(Current(c), events[Current(c)][i])}
  BY <1>6 DEF Due, Holding
<1> QED
  BY <1>1, <1>4, <1>5, <1>6, <1>8, <1>9

LEMMA SuspParked == SuspInv => ParkedIsWatched
<1> SUFFICES ASSUME SuspInv, Quiet, NEW c \in Coros, Parked(c), ~Aborted(Current(c))
             PROVE  /\ ~Multi(Current(c)) =>
                         LET e == events[Current(c)][1] IN
                         Queued(Current(c), e) /\ ~consumed[Current(c)] /\ ~flag[e]
                    /\ Multi(Current(c)) =>
                         LET Left == {i \in DOMAIN events[Current(c)] : Queued(Current(c), events[Current(c)][i])}
                         IN /\ counter[Current(c)] >= Cardinality(Left)
                            /\ \A i \in Left : ~flag[events[Current(c)][i]]
                            /\ (\A i \in DOMAIN events[Current(c)] : events[Current(c)][i] \notin program.clears)
                                 => counter[Current(c)] = Cardinality(Left) /\ Left # {}
  BY DEF ParkedIsWatched, WatchedAlone, CountdownExact
<1>1. PICK s \in Suspensions : s = Current(c)
  BY ParkedFacts
<1>2. /\ Made(s) /\ Open(s) /\ ~Spoilt(c) /\ ~Aborted(s) /\ Owner(s) = c
      /\ \A t \in Agents : ag[t].pc \notin SuspPCs
      /\ Due(s) = {i \in 1..Len(events[s]) : Queued(s, events[s][i])}
      /\ \A e \in Events : Queued(s, e) => ~flag[e]
  BY <1>1, ParkedFacts DEF Current, Owner
<1>3. events[s] \in Seq(Events) /\ DOMAIN events[s] = 1..Len(events[s])
      /\ \A i \in 1..Len(events[s]) : events[s][i] \in Events
  <2>1. events[s] \in Seq(Events)
    BY WaitsTyped DEF SuspInv
  <2> QED
    BY <2>1
<1>4. ASSUME ~Multi(s)
      PROVE  Queued(s, events[s][1]) /\ ~consumed[s] /\ ~flag[events[s][1]]
  <2>1. ~consumed[s]
    BY <1>2, <1>4 DEF Open
  <2>2. events[s] # <<>> /\ 1 \in Due(s)
    <3>1. IF events[s] = <<>>
            THEN \E t \in Agents : ag[t].pc \in {"checkpoint", "resume", "commit"} /\ ag[t].s = s
            ELSE 1 \in Due(s)
      BY <1>2, <1>4, <2>1 DEF SuspInv, SingleDue
    <3> QED
      BY <1>2, <3>1 DEF SuspPCs
  <2> QED
    BY <1>2, <1>3, <2>1, <2>2
<1>5. ASSUME Multi(s)
      PROVE  /\ counter[s] >= Cardinality(Due(s))
             /\ \A i \in Due(s) : ~flag[events[s][i]]
             /\ (\A i \in 1..Len(events[s]) : events[s][i] \notin program.clears)
                  => counter[s] = Cardinality(Due(s)) /\ Due(s) # {}
  <2>1. /\ counter[s] >= Cardinality(Due(s))
        /\ Uncleared(s) => counter[s] = Cardinality(Due(s))
    BY <1>2, <1>5 DEF SuspInv, Countdown
  <2>2. counter[s] > 0
    BY <1>2, <1>5 DEF Open
  <2>3. Due(s) = {} => Cardinality(Due(s)) = 0
    BY FS_EmptySet
  <2>4. Uncleared(s) => Due(s) # {}
    <3>1. counter[s] \in Int
      BY DEF SuspInv, SuspTypeOK
    <3> QED
      BY <2>1, <2>2, <2>3, <3>1
  <2> QED
    BY <1>2, <1>3, <2>1, <2>4 DEF Uncleared
<1>6. Due(s) = {i \in DOMAIN events[s] : Queued(s, events[s][i])}
  BY <1>2, <1>3
<1> QED
  BY <1>1, <1>3, <1>4, <1>5, <1>6

\* A coroutine is never queued or driven twice at a time, and never after it has returned,
\* whichever of its wakers, its timer and the abort of its checkpoint race (the exchange of
\* `consumed` and Sentinel::decrement, src/src/events.rs), in every application that does not
\* abort a checkpoint around a wait for several events.
THEOREM OneResumeHolds == SuspSpec => []OneResume
<1>1. SuspInit => SuspInv
  BY SuspInvInit
<1>2. SuspInv /\ [SuspNext]_suspensionVars => SuspInv'
  BY SuspInvStep
<1>3. SuspInv => OneResume
  BY SuspOneResume
<1> QED
  BY <1>1, <1>2, <1>3, PTL DEF SuspSpec

\* A set that races add_waker is not lost: when no call is under way, a coroutine that is parked
\* has a waker queued at every event it still waits for, none of these is set, and its countdown
\* is not below their number (Event::add_waker, notify and unnotify, src/src/events.rs).
THEOREM ParkedStaysWatched == SuspSpec => []ParkedIsWatched
<1>1. SuspInit => SuspInv
  BY SuspInvInit
<1>2. SuspInv /\ [SuspNext]_suspensionVars => SuspInv'
  BY SuspInvStep
<1>3. SuspInv => ParkedIsWatched
  BY SuspParked
<1> QED
  BY <1>1, <1>2, <1>3, PTL DEF SuspSpec

-----------------------------------------------------------------------------
\* Compat and Lifecycle.

-----------------------------------------------------------------------------
\* The patching of the asyncio namespace.

Values  == {"std", "ours"}
Entries == (1..Names) \X Values

\* The list holds the original of the name.
Holds(s, n) == \E i \in 1..Len(s) : s[i] = <<n, "std">>

\* The list holds nothing but originals.
Originals(s) == \A i \in 1..Len(s) : s[i][1] \in Present /\ s[i][2] = "std"

CompatTyped ==
  /\ lock \in Loops \cup {None} /\ attr \in [1..Names -> Values]
  /\ saved \in Seq(Entries) /\ installed \in Seq(Entries) \cup {None}
  /\ at \in 1..(Names + 1)
  /\ region \in [Loops -> {"out", "install", "in", "uninstall", "left"}]

\* Whoever is patching holds _lock.
PatchLocked == \A t \in Loops : region[t] \in {"install", "uninstall"} <=> lock = t

\* The loop of install: the names it has passed are ours, their originals are in the list.
Installing ==
  \A t \in Loops : region[t] = "install" =>
    /\ installed = None /\ Originals(saved)
    /\ \A n \in 1..Names : attr[n] = IF n < at /\ n \in Present THEN "ours" ELSE "std"
    /\ \A n \in Present : n < at => Holds(saved, n)

\* What is published is every original, and only originals.
Published == installed # None => Originals(installed) /\ \A n \in Present : Holds(installed, n)

\* The loop of uninstall: a name that is still ours has its original ahead.
Uninstalling ==
  \A t \in Loops : region[t] = "uninstall" =>
    /\ Originals(saved)
    /\ \A n \in 1..Names : attr[n] = "ours" => Holds(saved, n)

CompatInv ==
  CompatTyped /\ PatchLocked /\ Installing /\ Published /\ Uninstalling /\ NamesRestored

\* Only the two ends of a region touch the names.
LEMMA CompatSteps ==
  ASSUME [Next]_vars
  PROVE  UNCHANGED compatVars \/ \E l \in Loops : Entering(l) \/ Exiting(l)
<1> USE DEF appVars
<1>1. ASSUME NEW t \in Threads, ReactorStep(t) PROVE UNCHANGED compatVars
  BY <1>1, Zenon DEF ReactorStep, EnsureReactor, Acquire, Start, Started, StartTimeout, Acquired
<1>2. ASSUME NEW l \in Loops, LoopStep(l) PROVE UNCHANGED compatVars
  BY <1>1, <1>2, Zenon DEF Threads, LoopStep, Release, StopRuntime, JoinThread, RunUntilComplete, DoneWait,
    CancelAllTasks, RunForever, ForeverEnds, CloseFlag, CloseRelease
<1>3. ASSUME NEW l \in Loops, WorkStep(l) PROVE UNCHANGED compatVars
  BY <1>3, Zenon DEF WorkStep, RunTask, TaskTold, Answer, Drain, TaskAwaits, TaskEnds, JobRuns
<1>4. ASSUME NEW d \in Drivers, DriverStep(d) \/ PollFails(d) PROVE UNCHANGED compatVars
  BY <1>4, Zenon DEF DriverStep, PollFails, SsockStart, SigReg, RunInit, RunWork, Poll, Teardown, WorkersEnd,
    StopThreads, SigDereg, SsockStop, StoppingReset
<1>5. ASSUME NEW c \in Callers, CallerStep(c) PROVE UNCHANGED compatVars
  BY <1>1, <1>5, Zenon DEF Threads, CallerStep, CheckClosed, Push
<1>6. ASSUME NEW l \in Loops,
             \/ Begin(l) \/ GetRunner(l) \/ RunTest(l) \/ StopLoop(l)
             \/ \E k \in Kinds : TaskCreates(l, k)
             \/ \E c \in Callers : CallSoon(c, l)
      PROVE  UNCHANGED compatVars
  BY <1>6, Zenon DEF Begin, GetRunner, RunTest, StopLoop, TaskCreates, CallSoon
<1>7. CASE External
  BY <1>7, Zenon DEF External
<1>8. ASSUME NEW l \in Loops, Patch(l) PROVE Entering(l) \/ Exiting(l)
  BY <1>8, Zenon DEF Patch
<1>9. CASE UNCHANGED vars
  BY <1>9, Zenon DEF vars
<1> QED
  BY <1>2, <1>3, <1>4, <1>5, <1>6, <1>7, <1>8, <1>9, Zenon DEF Next

LEMMA ReverseFacts ==
  ASSUME NEW s \in Seq(Entries)
  PROVE  /\ Reverse(s) \in Seq(Entries) /\ Len(Reverse(s)) = Len(s)
         /\ \A i \in 1..Len(s) : Reverse(s)[i] = s[Len(s) - i + 1]
  BY DEF Reverse

LEMMA ReverseHolds ==
  ASSUME NEW s \in Seq(Entries), Originals(s)
  PROVE  Originals(Reverse(s)) /\ \A n \in Present : Holds(s, n) => Holds(Reverse(s), n)
<1>1. Originals(Reverse(s))
  BY ReverseFacts DEF Originals
<1>2. ASSUME NEW n \in Present, Holds(s, n) PROVE Holds(Reverse(s), n)
  <2>1. PICK i \in 1..Len(s) : s[i] = <<n, "std">>
    BY <1>2 DEF Holds
  <2>2. /\ Len(s) - i + 1 \in 1..Len(s)
        /\ Len(s) - (Len(s) - i + 1) + 1 = i
    OBVIOUS
  <2>3. Reverse(s)[Len(s) - i + 1] = s[i]
    BY <2>2, ReverseFacts
  <2> QED
    BY <2>1, <2>2, <2>3, ReverseFacts DEF Holds
<1> QED
  BY <1>1, <1>2

LEMMA AppendHolds ==
  ASSUME NEW s \in Seq(Entries), NEW n \in Present, Originals(s)
  PROVE  /\ Append(s, <<n, "std">>) \in Seq(Entries)
         /\ Originals(Append(s, <<n, "std">>)) /\ Holds(Append(s, <<n, "std">>), n)
         /\ \A m \in Present : Holds(s, m) => Holds(Append(s, <<n, "std">>), m)
<1> DEFINE r == Append(s, <<n, "std">>)
<1>1. /\ r \in Seq(Entries) /\ Len(r) = Len(s) + 1 /\ r[Len(s) + 1] = <<n, "std">>
      /\ \A i \in 1..Len(s) : r[i] = s[i]
  <2>1. <<n, "std">> \in Entries
    BY NamesAssumption DEF Entries, Values
  <2> QED
    BY <2>1
<1> HIDE DEF r
<1>2. Originals(r)
  BY <1>1 DEF Originals
<1>3. Holds(r, n)
  BY <1>1 DEF Holds
<1>4. \A m \in Present : Holds(s, m) => Holds(r, m)
  BY <1>1 DEF Holds
<1> QED
  BY <1>1, <1>2, <1>3, <1>4 DEF r

LEMMA TailHolds ==
  ASSUME NEW s \in Seq(Entries), s # <<>>, Originals(s)
  PROVE  /\ Tail(s) \in Seq(Entries) /\ Originals(Tail(s))
         /\ Head(s)[1] \in Present /\ Head(s)[2] = "std"
         /\ \A n \in Present : Holds(s, n) => n = Head(s)[1] \/ Holds(Tail(s), n)
<1>1. /\ Tail(s) \in Seq(Entries) /\ Len(Tail(s)) = Len(s) - 1 /\ Head(s) = s[1] /\ 1 \in 1..Len(s)
      /\ \A i \in 1..Len(Tail(s)) : Tail(s)[i] = s[i + 1] /\ i + 1 \in 1..Len(s)
  OBVIOUS
<1>2. Originals(Tail(s)) /\ Head(s)[1] \in Present /\ Head(s)[2] = "std"
  BY <1>1 DEF Originals
<1>3. ASSUME NEW n \in Present, Holds(s, n), n # Head(s)[1] PROVE Holds(Tail(s), n)
  <2>1. PICK i \in 1..Len(s) : s[i] = <<n, "std">>
    BY <1>3 DEF Holds
  <2>2. i # 1
    BY <1>1, <1>3, <2>1
  <2>3. i - 1 \in 1..Len(Tail(s)) /\ Tail(s)[i - 1] = s[i]
    BY <1>1, <2>2
  <2> QED
    BY <2>1, <2>3 DEF Holds
<1> QED
  BY <1>1, <1>2, <1>3

LEMMA CompatInvInit == Init => CompatInv
<1> SUFFICES ASSUME Init PROVE CompatInv
  OBVIOUS
<1>1. CompatTyped
  BY NamesAssumption DEF Init, CompatInit, CompatTyped, Values
<1> QED
  BY <1>1, NamesAssumption DEF Init, CompatInit, CompatInv, PatchLocked, Installing, Published,
    Uninstalling, NamesRestored

LEMMA CompatTypedStep ==
  ASSUME CompatInv, NEW t \in Loops, Entering(t) \/ Exiting(t)
  PROVE  CompatTyped'
<1> USE NamesAssumption DEF CompatInv, CompatTyped, Be
<1>1. CASE Install(t)
  <2>1. <<>> \in Seq(Entries) /\ 1 \in 1..(Names + 1)
    OBVIOUS
  <2>2. CASE installed # None
    BY <1>1, <2>2 DEF Install
  <2>3. CASE installed = None
    BY <1>1, <2>1, <2>3 DEF Install
  <2> QED
    BY <2>2, <2>3
<1>2. CASE InstallName(t)
  <2>0. <<at, attr[at]>> \in Entries
    BY <1>2 DEF InstallName, Entries
  <2>1. saved' \in Seq(Entries)
    BY <1>2, <2>0 DEF InstallName
  <2>2. at' \in 1..(Names + 1) /\ attr' \in [1..Names -> Values]
    BY <1>2 DEF InstallName, Values
  <2> QED
    BY <1>2, <2>1, <2>2 DEF InstallName
<1>3. CASE InstallEnd(t)
  BY <1>3 DEF InstallEnd
<1>4. CASE Uninstall(t)
  <2>1. installed # None => Reverse(installed) \in Seq(Entries)
    BY ReverseFacts
  <2> QED
    BY <1>4, <2>1 DEF Uninstall
<1>5. CASE UninstallName(t)
  <2>1. Head(saved) \in Entries /\ Tail(saved) \in Seq(Entries)
    BY <1>5 DEF UninstallName
  <2>2. attr' \in [1..Names -> Values]
    BY <1>5, <2>1 DEF UninstallName, Entries
  <2> QED
    BY <1>5, <2>1, <2>2 DEF UninstallName
<1>6. CASE UninstallEnd(t)
  BY <1>6 DEF UninstallEnd
<1> QED
  BY <1>1, <1>2, <1>3, <1>4, <1>5, <1>6 DEF Entering, Exiting

LEMMA PatchLockedStep ==
  ASSUME CompatInv, NEW t \in Loops, Entering(t) \/ Exiting(t)
  PROVE  PatchLocked'
  BY NamesAssumption DEF CompatInv, CompatTyped, PatchLocked, Be, Entering, Exiting, Install,
    InstallName, InstallEnd, Uninstall, UninstallName, UninstallEnd

LEMMA CompatInvStep == CompatInv /\ [Next]_vars => CompatInv'
<1> SUFFICES ASSUME CompatInv, [Next]_vars PROVE CompatInv'
  OBVIOUS
<1>1. CASE UNCHANGED compatVars
  BY <1>1 DEF compatVars, CompatInv, CompatTyped, PatchLocked, Installing, Published, Uninstalling,
    NamesRestored
<1>2. ASSUME NEW t \in Loops, Entering(t) \/ Exiting(t) PROVE CompatInv'
  <2> USE NamesAssumption DEF CompatInv
  <2>0. CompatTyped' /\ PatchLocked'
    BY <1>2, CompatTypedStep, PatchLockedStep
  <2>a. \A u \in Loops : region[u] \in {"install", "uninstall"} => lock = u
    BY DEF PatchLocked
  <2>b. \A u \in Loops : u # t => region'[u] = region[u]
    BY <1>2 DEF CompatTyped, Be, Entering, Exiting, Install, InstallName, InstallEnd, Uninstall,
      UninstallName, UninstallEnd
  <2>1. CASE Install(t)
    <3>1. CASE installed # None
      <4>1. \A u \in Loops : region'[u] \notin {"install", "uninstall"}
        BY <2>1, <2>a, <2>b, <3>1 DEF Install, Be, CompatTyped
      <4>2. Installing' /\ Published' /\ Uninstalling' /\ NamesRestored'
        BY <2>1, <3>1, <4>1 DEF Install, Installing, Published, Uninstalling, NamesRestored
      <4> QED
        BY <2>0, <4>2
    <3>2. CASE installed = None
      <4>1. /\ lock = None /\ lock' = t /\ saved' = <<>> /\ at' = 1 /\ installed' = None
            /\ attr' = attr /\ region'[t] = "install"
        BY <2>1, <3>2 DEF Install, Be, CompatTyped
      <4>2. \A u \in Loops : region'[u] = "uninstall" => FALSE
        BY <2>a, <2>b, <4>1
      <4>3. Originals(saved') /\ \A n \in 1..Names : attr'[n] = "std" /\ ~(n < at')
        BY <3>2, <4>1 DEF Originals, NamesRestored
      <4>4. Installing' /\ Published' /\ Uninstalling' /\ NamesRestored'
        BY <4>1, <4>2, <4>3 DEF Installing, Published, Uninstalling, NamesRestored
      <4> QED
        BY <2>0, <4>4
    <3> QED
      BY <3>1, <3>2
  <2>2. CASE InstallName(t)
    <3>1. lock = t /\ attr[at] = "std" /\ at \in 1..Names /\ installed = None /\ Originals(saved)
      BY <2>2 DEF InstallName, PatchLocked, Installing, CompatTyped
    <3>2. /\ Originals(saved')
          /\ \A n \in Present : n < at' => Holds(saved', n)
      <4>1. saved \in Seq(Entries) /\ \A n \in Present : n < at => Holds(saved, n)
        BY <2>2 DEF InstallName, Installing, CompatTyped
      <4>2. CASE at \in Present
        <5>1. saved' = Append(saved, <<at, "std">>) /\ at' = at + 1
          BY <2>2, <3>1, <4>2 DEF InstallName
        <5>2. \A n \in Present : n < at + 1 => n < at \/ n = at
          BY <3>1
        <5> QED
          BY <3>1, <4>1, <4>2, <5>1, <5>2, AppendHolds
      <4>3. CASE at \notin Present
        <5>1. saved' = saved /\ at' = at + 1 /\ \A n \in Present : n < at + 1 => n < at
          BY <2>2, <3>1, <4>3 DEF InstallName
        <5> QED
          BY <3>1, <4>1, <5>1
      <4> QED
        BY <4>2, <4>3
    <3>3. \A n \in 1..Names : attr'[n] = IF n < at' /\ n \in Present THEN "ours" ELSE "std"
      BY <2>2, <3>1 DEF InstallName, Installing, CompatTyped
    <3>4. lock' = t /\ installed' = None /\ region' = region /\ region[t] = "install"
      BY <2>2, <3>1 DEF InstallName
    <3>5. Installing' /\ Published' /\ Uninstalling' /\ NamesRestored'
      BY <2>a, <3>1, <3>2, <3>3, <3>4 DEF Installing, Published, Uninstalling, NamesRestored
    <3> QED
      BY <2>0, <3>5
  <2>3. CASE InstallEnd(t)
    <3>1. /\ lock = t /\ Originals(saved)
          /\ \A n \in 1..Names : attr[n] = IF n \in Present THEN "ours" ELSE "std"
          /\ \A n \in Present : Holds(saved, n)
      BY <2>3 DEF InstallEnd, PatchLocked, Installing, CompatTyped
    <3>2. installed' # None
      BY <2>3, NoneAssumption DEF InstallEnd, CompatTyped, Entries, Values
    <3>3. \A u \in Loops : region'[u] \notin {"install", "uninstall"}
      BY <2>3, <2>a, <2>b, <3>1 DEF InstallEnd, Be, CompatTyped
    <3>4. Installing' /\ Published' /\ Uninstalling' /\ NamesRestored'
      BY <2>3, <3>1, <3>2, <3>3 DEF InstallEnd, Installing, Published, Uninstalling, NamesRestored
    <3> QED
      BY <2>0, <3>4
  <2>4. CASE Uninstall(t)
    <3>1. CASE installed = None
      BY <2>0, <2>4, <2>b, <3>1 DEF Uninstall, Be, CompatTyped, PatchLocked, Installing, Published,
        Uninstalling, NamesRestored
    <3>2. CASE installed # None
      <4>1. /\ lock = None /\ lock' = t /\ saved' = Reverse(installed) /\ region'[t] = "uninstall"
            /\ attr' = attr /\ installed' = installed
        BY <2>4, <3>2 DEF Uninstall, Be, CompatTyped
      <4>2. Originals(saved') /\ \A n \in 1..Names : attr[n] = "ours" => Holds(saved', n)
        BY <3>2, <4>1, ReverseHolds DEF CompatTyped, Published, NamesRestored
      <4>3. \A u \in Loops : u # t => region'[u] \notin {"install", "uninstall"}
        BY <2>a, <2>b, <4>1
      <4>4. Installing' /\ Published' /\ Uninstalling' /\ NamesRestored'
        BY <3>2, <4>1, <4>2, <4>3 DEF Installing, Published, Uninstalling, NamesRestored
      <4> QED
        BY <2>0, <4>4
    <3> QED
      BY <3>1, <3>2
  <2>5. CASE UninstallName(t)
    <3>1. lock = t /\ Originals(saved) /\ saved # <<>> /\ saved \in Seq(Entries)
      BY <2>5 DEF UninstallName, PatchLocked, Uninstalling, CompatTyped
    <3>2. /\ Originals(saved') /\ Head(saved)[1] \in Present /\ Head(saved)[2] = "std"
          /\ \A n \in Present : Holds(saved, n) => n = Head(saved)[1] \/ Holds(saved', n)
      BY <2>5, <3>1, TailHolds DEF UninstallName
    <3>3. \A n \in 1..Names : attr[n] = "ours" => n \in Present /\ Holds(saved, n)
      <4>1. ASSUME NEW n \in 1..Names, attr[n] = "ours" PROVE n \in Present /\ Holds(saved, n)
        <5>1. Holds(saved, n)
          BY <2>5, <4>1 DEF UninstallName, Uninstalling
        <5>2. n \in Present
          BY <3>1, <5>1 DEF Holds, Originals
        <5> QED
          BY <5>1, <5>2
      <4> QED
        BY <4>1
    <3>4. \A n \in 1..Names : attr'[n] = "ours" => Holds(saved', n)
      BY <2>5, <3>2, <3>3 DEF UninstallName, CompatTyped
    <3>5. lock' = t /\ installed' = installed /\ region' = region /\ region[t] = "uninstall"
      BY <2>5, <3>1 DEF UninstallName
    <3>6. Installing' /\ Published' /\ Uninstalling' /\ NamesRestored'
      BY <2>a, <3>1, <3>2, <3>4, <3>5 DEF Installing, Published, Uninstalling, NamesRestored
    <3> QED
      BY <2>0, <3>6
  <2>6. CASE UninstallEnd(t)
    <3>1. /\ lock = t /\ installed' = None /\ attr' = attr
          /\ \A n \in 1..Names : attr[n] = "std"
      BY <2>6 DEF UninstallEnd, PatchLocked, Uninstalling, CompatTyped, Holds, Values
    <3>3. \A u \in Loops : region'[u] \notin {"install", "uninstall"}
      BY <2>6, <2>a, <2>b, <3>1 DEF UninstallEnd, Be, CompatTyped
    <3>4. Installing' /\ Published' /\ Uninstalling' /\ NamesRestored'
      BY <3>1, <3>3 DEF Installing, Published, Uninstalling, NamesRestored
    <3> QED
      BY <2>0, <3>4
  <2> QED
    BY <1>2, <2>1, <2>2, <2>3, <2>4, <2>5, <2>6 DEF Entering, Exiting
<1> QED
  BY <1>1, <1>2, CompatSteps

\* However the regions of several threads overlap, install and uninstall of _compat.py leave
\* no name behind and lose no original.
THEOREM NamesAreRestored == Spec => []NamesRestored
<1>1. Init => CompatInv
  BY CompatInvInit
<1>2. CompatInv /\ [Next]_vars => CompatInv'
  BY CompatInvStep
<1>3. CompatInv => NamesRestored
  BY DEF CompatInv
<1> QED
  BY <1>1, <1>2, <1>3, PTL DEF Spec

-----------------------------------------------------------------------------
\* The runtime that the loops share.

\* A driver up to the end of the poll loop, on the way out, and with its socket.
DrivingPCs == {"sig", "run", "work", "poll"}
EndingPCs  == {"cleanup", "join", "dereg", "ssockstop", "reset"}
SockPCs    == {"sig", "run", "work", "poll", "cleanup", "join", "dereg", "ssockstop"}
LockedPCs  == {"start", "starting", "stop", "join"}

\* Who counts: the loops that have acquired the reactor, the threads that have done so and not
\* yet said it, and the loops that have said that they have not and are about to release it.
Holders ==
  {h \in {"loop", "release", "thread"} \X Threads :
     \/ h[1] = "loop" /\ h[2] \in Loops /\ acquired[h[2]]
     \/ h[1] = "release" /\ h[2] \in Loops /\ pc[h[2]] = "release"
     \/ h[1] = "thread" /\ pc[h[2]] = "acquired"}

CountCovers == count >= Cardinality(Holders)

\* _lock of the reactor is held from the first acquire to the end of _start, and from the last
\* release to the end of _stop, when nobody counts.
ReactorLocked ==
  /\ \A t \in Threads : pc[t] \in LockedPCs <=> rlock = t
  /\ rlock # None => count = 0

\* There is a driver for every start.
Numbered == \A d \in Drivers : d > starts => driver[d] = "none"

\* One driver at a time, with its socket and, in the main thread, its wakeup descriptor; one
\* that leaves its poll loop was told to stop.
OneDriver ==
  /\ \A d, e \in Drivers : Alive(d) /\ Alive(e) => d = e
  /\ \A d \in Drivers : driver[d] \in SockPCs <=> ssock = d
  /\ listening => driver[0] \in {"run", "work", "poll", "cleanup", "join", "dereg"}
  /\ \A d \in Drivers : driver[d] \in EndingPCs => stopping

\* What the reactor owns is the thread it has started, until it is joined.
Owned ==
  /\ \A d \in Drivers \ {0} : Alive(d) => d = thread /\ (owns \/ (rlock # None /\ pc[rlock] = "join"))
  /\ owns => thread \in Drivers \ {0} /\ driver[thread] \in {"ssock"} \cup DrivingPCs
  /\ stopping => rlock # None /\ pc[rlock] = "join" /\ Alive(thread)
  /\ \A t \in Threads : /\ pc[t] \in {"start", "join"} => ~owns
                        /\ pc[t] \in {"starting", "stop"} => owns
                        /\ pc[t] = "join" => thread \in Drivers \ {0}
  /\ rlock = None /\ owns => count > 0
  /\ rlock = None /\ count > 0 => IF owns THEN Driving(thread) ELSE Driving(0)

HeldInv ==
  /\ TypeOK /\ CountCovers /\ ReactorLocked /\ Numbered
  /\ ~upset /\ ~left => OneDriver /\ Owned

\* Typing.
LEMMA PutTyped ==
  ASSUME NEW S, NEW T, NEW f \in [S -> T], NEW x, NEW v \in T
  PROVE  [f EXCEPT ![x] = v] \in [S -> T]
  OBVIOUS

LEMMA AppTyped ==
  ASSUME TypeOK
  PROVE  /\ app.runtime \in {"none", "plain", "context", "signals"} /\ app.calls \in Nat
         /\ 0 \in Drivers /\ Loops \subseteq Threads /\ Callers \subseteq Threads
         /\ \A t \in Threads : t # None
  BY AppsAssumption, StartsAssumption, ThreadsAssumption DEF TypeOK, Drivers, Threads

LEMMA TypeInit == Init => TypeOK
<1> SUFFICES ASSUME Init PROVE TypeOK
  OBVIOUS
<1>1. app \in Apps /\ runtime \in {"none", "plain", "context", "signals"}
  BY AppsAssumption DEF Init
<1>2. 0 \in Drivers /\ Loops \subseteq Threads
  BY StartsAssumption DEF Drivers, Threads
<1>3. /\ pc \in [Threads -> OwnerPCs \cup CallerPCs \cup BothPCs]
      /\ on \in [Threads -> Loops \cup {None}]
      /\ host \in [Callers \cup (Loops \X Kinds) -> Drivers \cup {None}]
      /\ driver \in [Drivers -> DriverPCs]
  BY <1>2 DEF Init, OwnerPCs, CallerPCs, BothPCs, DriverPCs
<1> QED
  BY <1>1, <1>2, <1>3 DEF Init, TypeOK

LEMMA FailedTyped ==
  ASSUME TypeOK, NEW t \in Threads, Failed(t)
  PROVE  /\ pc' \in [Threads -> OwnerPCs \cup CallerPCs \cup BothPCs]
         /\ stage' \in [Loops -> {"main", "gather", "shut"}]
         /\ host' \in [Callers \cup (Loops \X Kinds) -> Drivers \cup {None}]
<1> USE DEF TypeOK, Failed, Go
<1>1. \E p \in {"idle", "session", "close", "ensure"} : pc' = [pc EXCEPT ![t] = p]
  OBVIOUS
<1>2. pc' \in [Threads -> OwnerPCs \cup CallerPCs \cup BothPCs]
  BY <1>1 DEF OwnerPCs, CallerPCs, BothPCs
<1>3. stage' = stage \/ stage' = [stage EXCEPT ![t] = "shut"]
  OBVIOUS
<1>4. host' = host \/ host' = [host EXCEPT ![t] = None]
  OBVIOUS
<1> QED
  BY <1>2, <1>3, <1>4

LEMMA ReactorTyped ==
  ASSUME TypeOK, NEW t \in Threads, ReactorStep(t)
  PROVE  TypeOK'
<1> USE AppTyped, StartsAssumption DEF TypeOK, Go, OwnerPCs, CallerPCs, BothPCs, DriverPCs, Drivers, appVars, reactorVars, rtVars,
  loopVars, taskVars, Kinds
<1>1. CASE EnsureReactor(t)
  BY <1>1 DEF EnsureReactor, Ensured
<1>2. CASE Acquire(t)
  <2>1. rlock' \in Threads \cup {None} /\ count' \in Nat
    BY <1>2 DEF Acquire
  <2>2. pc' = [pc EXCEPT ![t] = "start"] \/ pc' = [pc EXCEPT ![t] = "acquired"]
    BY <1>2 DEF Acquire
  <2>3. pc' \in [Threads -> OwnerPCs \cup CallerPCs \cup BothPCs]
    BY <2>2, ZenonT(40)
  <2> QED
    BY <1>2, <2>1, <2>3 DEF Acquire
<1>3. CASE Start(t)
  <2>0. runtime' \in {"none", "plain", "context", "signals"}
    BY <1>3 DEF Start, New
  <2>1. CASE rlock' = None /\ Failed(t) /\ UNCHANGED <<count, owns, thread, driver, starts, upset>>
    <3>1. /\ UNCHANGED <<appVars, ssock, listening, stopping, workStopping, workers, loopVars, taskVars>>
          /\ UNCHANGED <<on, calls, stops, raced, left, count, owns, thread, driver, starts, upset>>
      BY <1>3, <2>1 DEF Start
    <3>2. /\ pc' \in [Threads -> OwnerPCs \cup CallerPCs \cup BothPCs]
          /\ stage' \in [Loops -> {"main", "gather", "shut"}]
          /\ host' \in [Callers \cup (Loops \X Kinds) -> Drivers \cup {None}]
      BY <2>1, FailedTyped
    <3> QED
      BY <2>0, <2>1, <3>1, <3>2, SMTT(30)
  <2>2. CASE /\ owns' = FALSE /\ count' = 1 /\ rlock' = None /\ Go(t, "acquired")
             /\ UNCHANGED <<thread, driver, starts, stage, host, upset>>
    <3>1. pc' \in [Threads -> OwnerPCs \cup CallerPCs \cup BothPCs]
      BY <2>2
    <3> QED
      BY <1>3, <2>0, <2>2, <3>1 DEF Start
  <2>3. CASE /\ starts < MaxStarts /\ starts' = starts + 1 /\ Launch(starts + 1)
             /\ thread' = starts + 1 /\ owns' = TRUE /\ Go(t, "starting")
             /\ UNCHANGED <<count, rlock, stage, host>>
    <3>1. pc' \in [Threads -> OwnerPCs \cup CallerPCs \cup BothPCs]
      BY <2>3
    <3>2. driver' \in [Drivers -> DriverPCs] /\ upset' \in BOOLEAN /\ starts' \in Drivers
          /\ thread' \in Drivers
      BY <2>3 DEF Launch
    <3> QED
      BY <1>3, <2>0, <2>3, <3>1, <3>2 DEF Start
  <2> QED
    BY <1>3, <2>1, <2>2, <2>3 DEF Start
<1>4. CASE Started(t)
  BY <1>4 DEF Started
<1>5. CASE StartTimeout(t)
  BY <1>5, FailedTyped, ZenonT(40) DEF StartTimeout
<1>6. CASE Acquired(t)
  <2>1. Ensured(t) \in OwnerPCs \cup CallerPCs \cup BothPCs
    BY DEF Ensured
  <2>2. pc' \in [Threads -> OwnerPCs \cup CallerPCs \cup BothPCs]
    BY <1>6, <2>1 DEF Acquired
  <2>3. raced' \in BOOLEAN /\ acquired' \in [Loops -> BOOLEAN]
    BY <1>6 DEF Acquired
  <2> QED
    BY <1>6, <2>2, <2>3 DEF Acquired
<1> QED
  BY <1>1, <1>2, <1>3, <1>4, <1>5, <1>6 DEF ReactorStep

LEMMA LoopTyped ==
  ASSUME TypeOK, NEW l \in Loops, LoopStep(l)
  PROVE  TypeOK'
<1> USE AppTyped, StartsAssumption DEF TypeOK, Go, OwnerPCs, CallerPCs, BothPCs, DriverPCs, Drivers, appVars, reactorVars, rtVars,
  loopVars, taskVars, Kinds
<1>1. CASE ReactorStep(l)
  BY <1>1, ReactorTyped
<1>2. CASE Release(l)
  <2>1. count' \in Nat
    BY <1>2 DEF Release
  <2>2. rlock' \in Threads \cup {None} /\ pc' \in [Threads -> OwnerPCs \cup CallerPCs \cup BothPCs]
    <3>1. CASE count = 1 /\ owns
      <4>1. rlock' = l /\ pc' = [pc EXCEPT ![l] = "stop"]
        BY <1>2, <3>1 DEF Release
      <4> QED
        BY <4>1
    <3>2. CASE ~(count = 1 /\ owns)
      BY <1>2, <3>2, ZenonT(40) DEF Release
    <3> QED
      BY <3>1, <3>2
  <2> QED
    BY <1>2, <2>1, <2>2 DEF Release
<1>3. CASE StopRuntime(l)
  BY <1>3, ZenonT(40) DEF StopRuntime, Stop
<1>4. CASE JoinThread(l)
  BY <1>4 DEF JoinThread
<1>5. CASE RunUntilComplete(l)
  <2>1. task' \in [Loops \X Kinds -> {"none", "queued", "running", "waiting", "done", "told"}]
    <3>1. CASE stage[l] = "gather"
      BY <1>5, <3>1 DEF RunUntilComplete
    <3>2. CASE stage[l] # "gather"
      <4>1. task' = [task EXCEPT ![<<l, stage[l]>>] = "queued"]
        BY <1>5, <3>2 DEF RunUntilComplete, CreateTask
      <4> QED
        BY <4>1, PutTyped
    <3> QED
      BY <3>1, <3>2
  <2>2. pc' \in [Threads -> OwnerPCs \cup CallerPCs \cup BothPCs]
    BY <1>5 DEF RunUntilComplete
  <2> QED
    BY <1>5, <2>1, <2>2 DEF RunUntilComplete
<1>6. CASE DoneWait(l)
  <2>1. pc' \in [Threads -> OwnerPCs \cup CallerPCs \cup BothPCs]
    <3>1. \E p \in {"spawn", "session", "cancel", "close"} : pc' = [pc EXCEPT ![l] = p]
      BY <1>6 DEF DoneWait, RunnerOf
    <3> QED
      BY <3>1
  <2>2. stage' \in [Loops -> {"main", "gather", "shut"}]
    BY <1>6, ZenonT(40) DEF DoneWait
  <2> QED
    BY <1>6, <2>1, <2>2 DEF DoneWait
<1>7. CASE CancelAllTasks(l)
  <2>1. AllTasks(l) \subseteq Kinds
    BY DEF AllTasks
  <2>2. snap' \in [Loops -> SUBSET Kinds] /\ cancelled' \subseteq Loops \X Kinds
    BY <1>7, <2>1 DEF CancelAllTasks
  <2>3. task' \in [Loops \X Kinds -> {"none", "queued", "running", "waiting", "done", "told"}]
    BY <1>7 DEF CancelAllTasks
  <2>4. pc' \in [Threads -> OwnerPCs \cup CallerPCs \cup BothPCs]
    BY <1>7 DEF CancelAllTasks
  <2>5. stage' \in [Loops -> {"main", "gather", "shut"}]
    BY <1>7 DEF CancelAllTasks
  <2> QED
    BY <1>7, <2>2, <2>3, <2>4, <2>5 DEF CancelAllTasks
<1>8. CASE RunForever(l)
  BY <1>8 DEF RunForever
<1>9. CASE ForeverEnds(l)
  BY <1>9 DEF ForeverEnds
<1>10. CASE CloseFlag(l)
  BY <1>10 DEF CloseFlag
<1>11. CASE CloseRelease(l)
  BY <1>11 DEF CloseRelease
<1> QED
  BY <1>1, <1>2, <1>3, <1>4, <1>5, <1>6, <1>7, <1>8, <1>9, <1>10, <1>11 DEF LoopStep

LEMMA DriverTyped ==
  ASSUME TypeOK, NEW d \in Drivers, DriverStep(d) \/ PollFails(d)
  PROVE  TypeOK'
<1> USE AppTyped, StartsAssumption DEF TypeOK, Go, OwnerPCs, CallerPCs, BothPCs, DriverPCs, Drivers, appVars, reactorVars, rtVars,
  loopVars, taskVars, Kinds
<1>1. CASE SsockStart(d)
  <2>1. driver' \in [Drivers -> DriverPCs]
    <3>1. driver' = [driver EXCEPT ![d] = "sig"] \/ driver' = [driver EXCEPT ![d] = "dereg"]
      BY <1>1 DEF SsockStart, Drive
    <3> QED
      BY <3>1
  <2>2. ssock' \in Drivers \cup {None}
    BY <1>1 DEF SsockStart
  <2> QED
    BY <1>1, <2>1, <2>2 DEF SsockStart
<1>2. CASE SigReg(d)
  <2>1. driver' \in [Drivers -> DriverPCs]
    <3>1. driver' = [driver EXCEPT ![d] = "run"] \/ driver' = [driver EXCEPT ![d] = "dereg"]
      BY <1>2 DEF SigReg, Drive
    <3> QED
      BY <3>1
  <2>2. listening' \in BOOLEAN /\ upset' \in BOOLEAN
    BY <1>2 DEF SigReg
  <2> QED
    BY <1>2, <2>1, <2>2 DEF SigReg
<1>3. CASE RunInit(d)
  BY <1>3 DEF RunInit, Drive
<1>4. CASE RunWork(d)
  <2>1. driver' \in [Drivers -> DriverPCs]
    BY <1>4 DEF RunWork, Drive
  <2>2. workers' \in [Drivers -> BOOLEAN] /\ workStopping' \in BOOLEAN
    BY <1>4 DEF RunWork
  <2> QED
    BY <1>4, <2>1, <2>2 DEF RunWork
<1>5. CASE Poll(d)
  BY <1>5 DEF Poll, Drive
<1>6. CASE Teardown(d)
  BY <1>6 DEF Teardown, Drive
<1>7. CASE WorkersEnd(d)
  BY <1>7 DEF WorkersEnd, Drive
<1>8. CASE StopThreads(d)
  BY <1>8 DEF StopThreads, Drive
<1>9. CASE SigDereg(d)
  <2>1. driver' \in [Drivers -> DriverPCs]
    BY <1>9 DEF SigDereg, Drive
  <2>2. listening' \in BOOLEAN
    BY <1>9 DEF SigDereg
  <2> QED
    BY <1>9, <2>1, <2>2 DEF SigDereg
<1>10. CASE SsockStop(d)
  BY <1>10 DEF SsockStop, Drive
<1>11. CASE StoppingReset(d)
  <2>1. driver' \in [Drivers -> DriverPCs]
    BY <1>11 DEF StoppingReset, Drive
  <2>2. stopping' \in BOOLEAN
    BY <1>11 DEF StoppingReset
  <2> QED
    BY <1>11, <2>1, <2>2 DEF StoppingReset
<1>12. CASE PollFails(d)
  <2>1. driver' \in [Drivers -> DriverPCs] /\ left' \in BOOLEAN
    BY <1>12 DEF PollFails, Drive
  <2> QED
    BY <1>12, <2>1 DEF PollFails
<1> QED
  BY <1>1, <1>2, <1>3, <1>4, <1>5, <1>6, <1>7, <1>8, <1>9, <1>10, <1>11, <1>12 DEF DriverStep


LEMMA WorkTyped ==
  ASSUME TypeOK, NEW l \in Loops, WorkStep(l)
  PROVE  TypeOK'
<1> USE AppTyped, StartsAssumption DEF TypeOK, Go, OwnerPCs, CallerPCs, BothPCs, DriverPCs, Drivers, appVars,
  reactorVars, rtVars, loopVars, taskVars
<1>1. ASSUME NEW d \in Drivers, NEW k \in Kinds, RunTask(<<l, k>>, d) PROVE TypeOK'
  BY <1>1 DEF RunTask
<1>2. ASSUME NEW d \in Drivers, NEW k \in Kinds, TaskTold(<<l, k>>, d) PROVE TypeOK'
  BY <1>2 DEF TaskTold
<1>3. ASSUME NEW d \in Drivers, Answer(l, d) PROVE TypeOK'
  <2>1. task' \in [Loops \X Kinds -> {"none", "queued", "running", "waiting", "done", "told"}]
    BY <1>3 DEF Answer
  <2>2. job' \in [Loops -> {"none", "submitted", "ran", "drained", "answer", "done"}]
    BY <1>3 DEF Answer
  <2> QED
    BY <1>3, <2>1, <2>2 DEF Answer
<1>4. ASSUME NEW d \in Drivers, NEW c \in Callers, Drain(c, l, d) PROVE TypeOK'
  BY <1>4 DEF Drain
<1>5. ASSUME NEW k \in Kinds, TaskAwaits(l, k) PROVE TypeOK'
  <2>1. task' \in [Loops \X Kinds -> {"none", "queued", "running", "waiting", "done", "told"}]
    BY <1>5 DEF TaskAwaits
  <2>2. job' \in [Loops -> {"none", "submitted", "ran", "drained", "answer", "done"}]
    <3>1. job' = job \/ job' = [job EXCEPT ![l] = "submitted"]
      BY <1>5 DEF TaskAwaits
    <3> QED
      BY <3>1
  <2>3. host' \in [Callers \cup (Loops \X Kinds) -> Drivers \cup {None}]
    BY <1>5 DEF TaskAwaits
  <2> QED
    BY <1>5, <2>1, <2>2, <2>3 DEF TaskAwaits
<1>6. ASSUME NEW k \in Kinds, TaskEnds(l, k) PROVE TypeOK'
  BY <1>6 DEF TaskEnds
<1>7. CASE JobRuns(l)
  BY <1>7 DEF JobRuns
<1> HIDE DEF TypeOK, Drivers
<1> QED
  BY <1>1, <1>2, <1>3, <1>4, <1>5, <1>6, <1>7, Zenon DEF WorkStep

\* The application: it starts loops, tests and drivers, stops loops and calls call_soon.
AppStep(l) ==
  \/ Patch(l) \/ Begin(l) \/ GetRunner(l) \/ RunTest(l) \/ StopLoop(l)
  \/ \E k \in Kinds : TaskCreates(l, k)
  \/ \E c \in Callers : CallSoon(c, l)

LEMMA AppStepTyped ==
  ASSUME TypeOK, NEW l \in Loops, AppStep(l)
  PROVE  TypeOK'
<1> USE AppTyped, StartsAssumption DEF TypeOK, Go, OwnerPCs, CallerPCs, BothPCs, DriverPCs, Drivers, appVars,
  reactorVars, rtVars, loopVars, taskVars
<1>1. CASE Patch(l)
  BY <1>1 DEF Patch
<1>2. CASE Begin(l)
  BY <1>2 DEF Begin
<1>7. CASE GetRunner(l)
  BY <1>7 DEF GetRunner
<1>3. CASE RunTest(l)
  BY <1>3 DEF RunTest
<1>4. CASE StopLoop(l)
  BY <1>4 DEF StopLoop
<1>5. ASSUME NEW k \in Kinds, TaskCreates(l, k) PROVE TypeOK'
  <2>1. \E x : task' = [task EXCEPT ![x] = "queued"]
    BY <1>5 DEF TaskCreates, CreateTask
  <2>2. task' \in [Loops \X Kinds -> {"none", "queued", "running", "waiting", "done", "told"}]
    BY <2>1, PutTyped
  <2> QED
    BY <1>5, <2>2 DEF TaskCreates
<1>6. ASSUME NEW c \in Callers, CallSoon(c, l) PROVE TypeOK'
  BY <1>6 DEF CallSoon
<1> HIDE DEF TypeOK
<1> QED
  BY <1>1, <1>2, <1>3, <1>4, <1>5, <1>6, <1>7, Zenon DEF AppStep

LEMMA CallerTyped ==
  ASSUME TypeOK, NEW c \in Callers, CallerStep(c)
  PROVE  TypeOK'
<1> USE AppTyped, StartsAssumption DEF TypeOK, Go, OwnerPCs, CallerPCs, BothPCs, DriverPCs, Drivers, appVars,
  reactorVars, rtVars, loopVars, taskVars
<1>1. CASE ReactorStep(c)
  BY <1>1, ReactorTyped
<1>2. CASE CheckClosed(c)
  BY <1>2 DEF CheckClosed
<1>3. CASE Push(c)
  <2>1. pc' \in [Threads -> OwnerPCs \cup CallerPCs \cup BothPCs]
    BY <1>3 DEF Push
  <2>2. job' \in [Loops -> {"none", "submitted", "ran", "drained", "answer", "done"}]
    BY <1>3 DEF Push
  <2>3. host' \in [Callers \cup (Loops \X Kinds) -> Drivers \cup {None}]
    BY <1>3 DEF Push
  <2> QED
    BY <1>3, <2>1, <2>2, <2>3 DEF Push
<1> QED
  BY <1>1, <1>2, <1>3 DEF CallerStep

LEMMA NextSteps ==
  ASSUME Next
  PROVE  \/ External
         \/ \E l \in Loops : AppStep(l) \/ LoopStep(l) \/ WorkStep(l)
         \/ \E c \in Callers : CallerStep(c)
         \/ \E d \in Drivers : DriverStep(d) \/ PollFails(d)
  BY Zenon DEF Next, AppStep

LEMMA TypeStep == TypeOK /\ [Next]_vars => TypeOK'
<1> SUFFICES ASSUME TypeOK, [Next]_vars PROVE TypeOK'
  OBVIOUS
<1>1. CASE External
  BY <1>1, AppTyped DEF External, Launch, TypeOK, DriverPCs, appVars, reactorVars, loopVars, taskVars
<1>2. CASE UNCHANGED vars
  BY <1>2 DEF vars, TypeOK, appVars, reactorVars, rtVars, loopVars, taskVars
<1> QED
  BY <1>1, <1>2, NextSteps, AppStepTyped, LoopTyped, WorkTyped, CallerTyped, DriverTyped

\* The state of the reactor, of the runtime and its drivers, and of the loops with their tasks
\* is always of its type.
THEOREM LifecycleTyped == Spec => []TypeOK
<1>1. Init => TypeOK
  BY TypeInit
<1>2. TypeOK /\ [Next]_vars => TypeOK'
  BY TypeStep
<1> QED
  BY <1>1, <1>2, PTL DEF Spec

-----------------------------------------------------------------------------
\* Steps that are nothing to the reactor.

Marks == LockedPCs \cup {"acquired", "release"}

Aside ==
  /\ \A t \in Threads : pc'[t] = pc[t] \/ (pc[t] \notin Marks /\ pc'[t] \notin Marks)
  /\ UNCHANGED <<reactorVars, ssock, listening, stopping, driver, starts, acquired, upset, left>>

LEMMA AsideKeeps == HeldInv /\ TypeOK' /\ Aside => HeldInv'
<1> SUFFICES ASSUME HeldInv, TypeOK', Aside PROVE HeldInv'
  OBVIOUS
<1> USE DEF HeldInv
<1>0. /\ rlock' = rlock /\ count' = count /\ owns' = owns /\ thread' = thread /\ ssock' = ssock
      /\ listening' = listening /\ stopping' = stopping /\ driver' = driver /\ starts' = starts
      /\ acquired' = acquired /\ upset' = upset /\ left' = left
  BY DEF Aside, reactorVars
<1>1. \A t \in Threads, p \in Marks : pc'[t] = p <=> pc[t] = p
  BY DEF Aside
<1>2. \A t \in Threads : /\ pc'[t] = "start" <=> pc[t] = "start"
                         /\ pc'[t] = "starting" <=> pc[t] = "starting"
                         /\ pc'[t] = "stop" <=> pc[t] = "stop"
                         /\ pc'[t] = "join" <=> pc[t] = "join"
                         /\ pc'[t] = "acquired" <=> pc[t] = "acquired"
                         /\ pc'[t] = "release" <=> pc[t] = "release"
  BY <1>1 DEF Marks, LockedPCs
<1>3. CountCovers'
  <2>1. Holders' = Holders
    BY <1>0, <1>2 DEF Holders, Threads
  <2> QED
    BY <1>0, <2>1 DEF CountCovers
<1>4. ReactorLocked'
  BY <1>0, <1>2 DEF ReactorLocked, LockedPCs
<1>5. Numbered'
  BY <1>0 DEF Numbered
<1>6. ASSUME ~upset', ~left' PROVE OneDriver' /\ Owned'
  <2>1. OneDriver /\ Owned
    BY <1>0, <1>6
  <2>2. OneDriver'
    BY <1>0, <2>1 DEF OneDriver, Alive
  <2>3. rlock # None => rlock \in Threads
    BY DEF TypeOK
  <2>4. Owned'
    BY <1>0, <1>2, <2>1, <2>3 DEF Owned, Alive, Driving
  <2> QED
    BY <2>2, <2>4
<1> QED
  BY <1>3, <1>4, <1>5, <1>6

LEMMA AsideSteps ==
  ASSUME TypeOK,
         \/ \E l \in Loops :
              \/ AppStep(l) \/ WorkStep(l) \/ EnsureReactor(l) \/ RunUntilComplete(l) \/ DoneWait(l)
              \/ CancelAllTasks(l) \/ RunForever(l) \/ ForeverEnds(l) \/ CloseFlag(l)
         \/ \E c \in Callers : EnsureReactor(c) \/ CheckClosed(c) \/ Push(c)
         \/ \E d \in Drivers : WorkersEnd(d)
  PROVE  Aside
<1> USE AppTyped DEF TypeOK, Aside, Marks, LockedPCs, Go, reactorVars, rtVars, loopVars
<1>1. ASSUME NEW l \in Loops, AppStep(l) PROVE Aside
  <2>1. CASE Patch(l) \/ StopLoop(l) \/ \E k \in Kinds : TaskCreates(l, k)
    BY <2>1 DEF Patch, StopLoop, TaskCreates
  <2>2. CASE Begin(l) \/ GetRunner(l) \/ RunTest(l)
    BY <2>2 DEF Begin, GetRunner, RunTest
  <2>3. ASSUME NEW c \in Callers, CallSoon(c, l) PROVE Aside
    BY <2>3 DEF CallSoon
  <2> HIDE DEF Aside
  <2> QED
    BY <1>1, <2>1, <2>2, <2>3, Zenon DEF AppStep
<1>2. ASSUME NEW l \in Loops, WorkStep(l) PROVE Aside
  <2>1. ASSUME NEW d \in Drivers, NEW c \in Callers, Drain(c, l, d) PROVE Aside
    BY <2>1 DEF Drain
  <2>2. ASSUME NEW d \in Drivers, NEW k \in Kinds, RunTask(<<l, k>>, d) \/ TaskTold(<<l, k>>, d)
        PROVE  Aside
    BY <2>2 DEF RunTask, TaskTold
  <2>3. ASSUME NEW d \in Drivers, Answer(l, d) PROVE Aside
    BY <2>3 DEF Answer
  <2>4. ASSUME NEW k \in Kinds, TaskAwaits(l, k) \/ TaskEnds(l, k) PROVE Aside
    BY <2>4 DEF TaskAwaits, TaskEnds
  <2>5. CASE JobRuns(l)
    BY <2>5 DEF JobRuns
  <2> HIDE DEF Aside
  <2> QED
    BY <1>2, <2>1, <2>2, <2>3, <2>4, <2>5, Zenon DEF WorkStep
<1>3. ASSUME NEW t \in Threads, EnsureReactor(t) PROVE Aside
  BY <1>3 DEF EnsureReactor, Ensured
<1>4. ASSUME NEW l \in Loops, RunUntilComplete(l) \/ DoneWait(l) \/ CancelAllTasks(l) PROVE Aside
  BY <1>4 DEF RunUntilComplete, DoneWait, CancelAllTasks, RunnerOf
<1>5. ASSUME NEW l \in Loops, RunForever(l) \/ ForeverEnds(l) \/ CloseFlag(l) PROVE Aside
  BY <1>5 DEF RunForever, ForeverEnds, CloseFlag
<1>6. ASSUME NEW c \in Callers, CheckClosed(c) \/ Push(c) PROVE Aside
  BY <1>6 DEF CheckClosed, Push
<1>7. ASSUME NEW d \in Drivers, WorkersEnd(d) PROVE Aside
  BY <1>7 DEF WorkersEnd
<1> HIDE DEF Aside
<1> QED
  BY <1>1, <1>2, <1>3, <1>4, <1>5, <1>6, <1>7

-----------------------------------------------------------------------------
\* The drivers.

\* A step of a driver leaves the reactor alone, and moves no other driver.
DriverMoves(d) ==
  /\ UNCHANGED <<reactorVars, starts, pc, acquired>>
  /\ driver[d] # "none"
  /\ \A e \in Drivers : e # d => driver'[e] = driver[e]
  /\ (upset => upset') /\ (left => left')

LEMMA DriverFrame ==
  ASSUME HeldInv, TypeOK', NEW d \in Drivers, DriverMoves(d), ~upset' /\ ~left' => OneDriver' /\ Owned'
  PROVE  HeldInv'
<1> USE DEF HeldInv, DriverMoves, reactorVars
<1>1. CountCovers'
  BY DEF CountCovers, Holders
<1>2. ReactorLocked'
  BY DEF ReactorLocked
<1>3. Numbered'
  BY DEF Numbered
<1> QED
  BY <1>1, <1>2, <1>3

LEMMA DriverKeeps ==
  ASSUME HeldInv, TypeOK', NEW d \in Drivers, DriverStep(d) \/ PollFails(d)
  PROVE  HeldInv'
<1> USE AppTyped DEF HeldInv
<1>0. CASE WorkersEnd(d)
  BY <1>0, AsideSteps, AsideKeeps
<1>1. CASE SsockStart(d)
  <2>1. DriverMoves(d)
    BY <1>1 DEF SsockStart, DriverMoves, Drive, TypeOK, reactorVars, loopVars
  <2>2. ASSUME ~upset', ~left' PROVE OneDriver' /\ Owned'
    <3>1. ~upset /\ ~left /\ OneDriver /\ Owned
      BY <1>1, <2>2 DEF SsockStart
    <3>4. d # None /\ driver[d] = "ssock" /\ \A e \in Drivers : e # d => ~Alive(e)
      BY <1>1, <3>1, StartsAssumption DEF SsockStart, OneDriver, Alive, Drivers
    <3>5. ssock = None
      BY <3>1, <3>4 DEF OneDriver, Alive, SockPCs, TypeOK
    <3>0. /\ ssock' = d /\ driver' = [driver EXCEPT ![d] = "sig"]
          /\ listening' = listening /\ stopping' = stopping
      BY <1>1, <3>5 DEF SsockStart, Drive
    <3>2. OneDriver'
      BY <3>1, <3>0, <3>4, <3>5 DEF OneDriver, Owned, Alive, SockPCs, EndingPCs, TypeOK
    <3>3. Owned'
      BY <2>1, <3>1, <3>0, <3>4, <3>5 DEF DriverMoves, OneDriver, Owned, Alive, Driving, DrivingPCs, SockPCs,
        EndingPCs, TypeOK, reactorVars
    <3> QED
      BY <3>2, <3>3
  <2> QED
    BY <2>1, <2>2, DriverFrame
<1>2. CASE SigReg(d)
  <2>1. DriverMoves(d)
    BY <1>2 DEF SigReg, DriverMoves, Drive, TypeOK, reactorVars, loopVars
  <2>2. ASSUME ~upset', ~left' PROVE OneDriver' /\ Owned'
    <3>1. ~upset /\ ~left /\ OneDriver /\ Owned
      BY <1>2, <2>2 DEF SigReg
    <3>4. driver[d] = "sig" /\ driver' = [driver EXCEPT ![d] = "run"]
      BY <1>2, <2>2 DEF SigReg, Drive
    <3>5. /\ ssock' = ssock /\ stopping' = stopping
          /\ listening' => listening \/ d = 0
      BY <1>2 DEF SigReg, SetSigWfd, MainThread
    <3>2. OneDriver'
      BY <3>1, <3>4, <3>5 DEF OneDriver, Owned, Alive, SockPCs, EndingPCs, TypeOK
    <3>3. Owned'
      BY <2>1, <3>1, <3>4, <3>5 DEF DriverMoves, OneDriver, Owned, Alive, Driving, DrivingPCs, SockPCs,
        EndingPCs, TypeOK, reactorVars
    <3> QED
      BY <3>2, <3>3
  <2> QED
    BY <2>1, <2>2, DriverFrame
<1>3. CASE RunInit(d)
  <2>1. DriverMoves(d)
    BY <1>3 DEF RunInit, DriverMoves, Drive, TypeOK, reactorVars, loopVars
  <2>2. ASSUME ~upset', ~left' PROVE OneDriver' /\ Owned'
    <3>1. ~upset /\ ~left /\ OneDriver /\ Owned
      BY <1>3, <2>2 DEF RunInit
    <3>4. d # None /\ driver[d] = "run" /\ ssock = d
      BY <1>3, <3>1, StartsAssumption DEF RunInit, OneDriver, SockPCs, Drivers
    <3>0. /\ ssock' = ssock /\ driver' = [driver EXCEPT ![d] = "work"]
          /\ listening' = listening /\ stopping' = stopping
      BY <1>3, <3>4 DEF RunInit, Drive
    <3>2. OneDriver'
      BY <3>1, <3>0, <3>4 DEF OneDriver, Owned, Alive, SockPCs, EndingPCs, TypeOK
    <3>3. Owned'
      BY <2>1, <3>1, <3>0, <3>4 DEF DriverMoves, OneDriver, Owned, Alive, Driving, DrivingPCs, SockPCs,
        EndingPCs, TypeOK, reactorVars
    <3> QED
      BY <3>2, <3>3
  <2> QED
    BY <2>1, <2>2, DriverFrame
<1>4. CASE RunWork(d)
  <2>1. DriverMoves(d)
    BY <1>4 DEF RunWork, DriverMoves, Drive, TypeOK, reactorVars, loopVars
  <2>2. ASSUME ~upset', ~left' PROVE OneDriver' /\ Owned'
    <3>1. ~upset /\ ~left /\ OneDriver /\ Owned
      BY <1>4, <2>2 DEF RunWork
    <3>2. OneDriver'
      BY <1>4, <2>2, <3>1 DEF RunWork, Drive, OneDriver, Owned, Alive, SockPCs, EndingPCs, TypeOK
    <3>3. Owned'
      BY <1>4, <2>2, <3>1 DEF RunWork, Drive, OneDriver, Owned, Alive, Driving, DrivingPCs, SockPCs,
        EndingPCs, TypeOK, reactorVars
    <3> QED
      BY <3>2, <3>3
  <2> QED
    BY <2>1, <2>2, DriverFrame
<1>5. CASE Poll(d)
  <2>1. DriverMoves(d)
    BY <1>5 DEF Poll, DriverMoves, Drive, TypeOK, reactorVars, loopVars
  <2>2. ASSUME ~upset', ~left' PROVE OneDriver' /\ Owned'
    <3>1. ~upset /\ ~left /\ OneDriver /\ Owned
      BY <1>5, <2>2 DEF Poll
    <3>2. OneDriver'
      BY <1>5, <2>2, <3>1 DEF Poll, Drive, OneDriver, Owned, Alive, SockPCs, EndingPCs, TypeOK
    <3>3. Owned'
      BY <1>5, <2>2, <3>1 DEF Poll, Drive, OneDriver, Owned, Alive, Driving, DrivingPCs, SockPCs,
        EndingPCs, TypeOK, reactorVars
    <3> QED
      BY <3>2, <3>3
  <2> QED
    BY <2>1, <2>2, DriverFrame
<1>6. CASE Teardown(d)
  <2>1. DriverMoves(d)
    BY <1>6 DEF Teardown, DriverMoves, Drive, TypeOK, reactorVars, loopVars
  <2>2. ASSUME ~upset', ~left' PROVE OneDriver' /\ Owned'
    <3>1. ~upset /\ ~left /\ OneDriver /\ Owned
      BY <1>6, <2>2 DEF Teardown
    <3>2. OneDriver'
      BY <1>6, <2>2, <3>1 DEF Teardown, Drive, OneDriver, Owned, Alive, SockPCs, EndingPCs, TypeOK
    <3>3. Owned'
      BY <1>6, <2>2, <3>1 DEF Teardown, Drive, OneDriver, Owned, Alive, Driving, DrivingPCs, SockPCs,
        EndingPCs, TypeOK, reactorVars
    <3> QED
      BY <3>2, <3>3
  <2> QED
    BY <2>1, <2>2, DriverFrame
<1>7. CASE StopThreads(d)
  <2>1. DriverMoves(d)
    BY <1>7 DEF StopThreads, DriverMoves, Drive, TypeOK, reactorVars, loopVars
  <2>2. ASSUME ~upset', ~left' PROVE OneDriver' /\ Owned'
    <3>1. ~upset /\ ~left /\ OneDriver /\ Owned
      BY <1>7, <2>2 DEF StopThreads
    <3>2. OneDriver'
      BY <1>7, <2>2, <3>1 DEF StopThreads, Drive, OneDriver, Owned, Alive, SockPCs, EndingPCs, TypeOK
    <3>3. Owned'
      BY <1>7, <2>2, <3>1 DEF StopThreads, Drive, OneDriver, Owned, Alive, Driving, DrivingPCs, SockPCs,
        EndingPCs, TypeOK, reactorVars
    <3> QED
      BY <3>2, <3>3
  <2> QED
    BY <2>1, <2>2, DriverFrame
<1>8. CASE SigDereg(d)
  <2>1. DriverMoves(d)
    BY <1>8 DEF SigDereg, DriverMoves, Drive, TypeOK, reactorVars, loopVars
  <2>2. ASSUME ~upset', ~left' PROVE OneDriver' /\ Owned'
    <3>1. ~upset /\ ~left /\ OneDriver /\ Owned
      BY <1>8, <2>2 DEF SigDereg
    <3>2. OneDriver'
      BY <1>8, <2>2, <3>1 DEF SigDereg, SetSigWfd, MainThread, Drive, OneDriver, Owned, Alive, SockPCs, EndingPCs, TypeOK
    <3>3. Owned'
      BY <1>8, <2>2, <3>1 DEF SigDereg, SetSigWfd, MainThread, Drive, OneDriver, Owned, Alive, Driving, DrivingPCs, SockPCs,
        EndingPCs, TypeOK, reactorVars
    <3> QED
      BY <3>2, <3>3
  <2> QED
    BY <2>1, <2>2, DriverFrame
<1>9. CASE SsockStop(d)
  <2>1. DriverMoves(d)
    BY <1>9 DEF SsockStop, DriverMoves, Drive, TypeOK, reactorVars, loopVars
  <2>2. ASSUME ~upset', ~left' PROVE OneDriver' /\ Owned'
    <3>1. ~upset /\ ~left /\ OneDriver /\ Owned
      BY <1>9, <2>2 DEF SsockStop
    <3>4. /\ d # None /\ driver[d] = "ssockstop" /\ ssock = d
          /\ \A e \in Drivers : e # d => ~Alive(e) /\ e # None
      BY <1>9, <3>1, StartsAssumption DEF SsockStop, OneDriver, SockPCs, Alive, Drivers
    <3>0. /\ ssock' = None /\ driver' = [driver EXCEPT ![d] = "reset"]
          /\ listening' = listening /\ stopping' = stopping
      BY <1>9, <3>4 DEF SsockStop, Drive
    <3>2. OneDriver'
      BY <3>1, <3>0, <3>4 DEF OneDriver, Owned, Alive, SockPCs, EndingPCs, TypeOK
    <3>3. Owned'
      BY <2>1, <3>1, <3>0, <3>4 DEF DriverMoves, OneDriver, Owned, Alive, Driving, DrivingPCs, SockPCs,
        EndingPCs, TypeOK, reactorVars
    <3> QED
      BY <3>2, <3>3
  <2> QED
    BY <2>1, <2>2, DriverFrame
<1>10. CASE StoppingReset(d)
  <2>1. DriverMoves(d)
    BY <1>10 DEF StoppingReset, DriverMoves, Drive, TypeOK, reactorVars, loopVars
  <2>2. ASSUME ~upset', ~left' PROVE OneDriver' /\ Owned'
    <3>1. ~upset /\ ~left /\ OneDriver /\ Owned
      BY <1>10, <2>2 DEF StoppingReset
    <3>4. driver[d] = "reset" /\ \A e \in Drivers : e # d => ~Alive(e)
      BY <1>10, <3>1 DEF StoppingReset, OneDriver, Alive
    <3>0. /\ ssock' = ssock /\ driver' = [driver EXCEPT ![d] = "ended"]
          /\ listening' = listening /\ stopping' = FALSE
      BY <1>10 DEF StoppingReset, Drive
    <3>5. ~listening
      BY <3>1, <3>4 DEF OneDriver, Alive
    <3>6. \A e \in Drivers : driver'[e] \in {"none", "ended"} /\ ssock # e
      BY <3>1, <3>0, <3>4 DEF OneDriver, Alive, SockPCs, TypeOK
    <3>2. OneDriver'
      BY <3>0, <3>5, <3>6 DEF OneDriver, Alive, SockPCs, EndingPCs
    <3>3. Owned'
      BY <2>1, <3>1, <3>0, <3>4 DEF DriverMoves, OneDriver, Owned, Alive, Driving, DrivingPCs, SockPCs,
        EndingPCs, TypeOK, reactorVars
    <3> QED
      BY <3>2, <3>3
  <2> QED
    BY <2>1, <2>2, DriverFrame
<1>11. CASE PollFails(d)
  <2>1. DriverMoves(d) /\ left'
    BY <1>11 DEF PollFails, DriverMoves, Drive, TypeOK, reactorVars, loopVars
  <2> QED
    BY <2>1, DriverFrame
<1> QED
  BY <1>0, <1>1, <1>2, <1>3, <1>4, <1>5, <1>6, <1>7, <1>8, <1>9, <1>10, <1>11 DEF DriverStep

-----------------------------------------------------------------------------
\* The count.

LEMMA HoldersFinite ==
  /\ IsFiniteSet(Holders) /\ Cardinality(Holders) \in Nat
  /\ IsFiniteSet(Holders') /\ Cardinality(Holders') \in Nat
<1>1. IsFiniteSet({"loop", "release", "thread"} \X Threads)
  <2>1. IsFiniteSet(Threads)
    BY ThreadsAssumption, FS_Union DEF Threads
  <2>2. IsFiniteSet({"loop", "release", "thread"})
    <3>1. IsFiniteSet({"loop"}) /\ IsFiniteSet({"release"}) /\ IsFiniteSet({"thread"})
      BY FS_Singleton
    <3>2. IsFiniteSet({"loop"} \cup {"release"})
      BY <3>1, FS_Union
    <3>3. IsFiniteSet(({"loop"} \cup {"release"}) \cup {"thread"})
      BY <3>1, <3>2, FS_Union
    <3>4. ({"loop"} \cup {"release"}) \cup {"thread"} = {"loop", "release", "thread"}
      OBVIOUS
    <3> QED
      BY <3>3, <3>4
  <2> QED
    BY <2>1, <2>2, FS_Product
<1>2. /\ Holders \subseteq {"loop", "release", "thread"} \X Threads
      /\ Holders' \subseteq {"loop", "release", "thread"} \X Threads
  BY DEF Holders
<1> QED
  BY <1>1, <1>2, FS_Subset, FS_CardinalityType

\* One more, one less, and one in the place of another.
LEMMA CountedOnce ==
  ASSUME NEW S, NEW T, IsFiniteSet(S), NEW x
  PROVE  /\ T = S \cup {x} => Cardinality(T) <= Cardinality(S) + 1
         /\ x \in S /\ T = S \ {x} => Cardinality(T) = Cardinality(S) - 1
         /\ \A y : x \in S /\ T \subseteq (S \ {x}) \cup {y} => Cardinality(T) <= Cardinality(S)
<1>0. Cardinality(S) \in Nat
  BY FS_CardinalityType
<1>1. T = S \cup {x} => Cardinality(T) <= Cardinality(S) + 1
  BY <1>0, FS_AddElement
<1>2. x \in S => IsFiniteSet(S \ {x}) /\ Cardinality(S \ {x}) = Cardinality(S) - 1
  BY FS_RemoveElement
<1>3. ASSUME NEW y, x \in S, T \subseteq (S \ {x}) \cup {y} PROVE Cardinality(T) <= Cardinality(S)
  <2>1. /\ IsFiniteSet((S \ {x}) \cup {y})
        /\ \/ Cardinality((S \ {x}) \cup {y}) = Cardinality(S \ {x})
           \/ Cardinality((S \ {x}) \cup {y}) = Cardinality(S \ {x}) + 1
    BY <1>2, <1>3, FS_AddElement
  <2>2. Cardinality((S \ {x}) \cup {y}) <= Cardinality(S)
    BY <1>0, <1>2, <1>3, <2>1
  <2>3. /\ Cardinality(T) <= Cardinality((S \ {x}) \cup {y})
        /\ Cardinality(T) \in Nat /\ Cardinality((S \ {x}) \cup {y}) \in Nat
    BY <1>3, <2>1, FS_Subset, FS_CardinalityType
  <2> QED
    BY <1>0, <2>2, <2>3
<1> QED
  BY <1>1, <1>2, <1>3

\* A thread that goes on, and a loop whose flag stays.
LEMMA HoldersGo ==
  ASSUME TypeOK, NEW t \in Threads, NEW p, Go(t, p), acquired' = acquired
  PROVE  /\ /\ pc[t] \notin {"acquired", "release"} /\ p \notin {"acquired", "release"}
            => Holders' = Holders
         /\ pc[t] \notin {"acquired", "release"} /\ p = "acquired"
            => Holders' = Holders \cup {<<"thread", t>>}
         /\ t \in Loops /\ pc[t] = "release" /\ p \notin {"acquired", "release"}
            => <<"release", t>> \in Holders /\ Holders' = Holders \ {<<"release", t>>}
<1>1. \A u \in Threads : pc'[u] = IF u = t THEN p ELSE pc[u]
  BY DEF Go, TypeOK
<1>2. Loops \subseteq Threads
  BY DEF Threads
<1>3. ASSUME pc[t] \notin {"acquired", "release"}, p \notin {"acquired", "release"}
      PROVE  Holders' = Holders
  BY <1>1, <1>2, <1>3 DEF Holders
<1>4. ASSUME pc[t] \notin {"acquired", "release"}, p = "acquired"
      PROVE  Holders' = Holders \cup {<<"thread", t>>}
  BY <1>1, <1>2, <1>4 DEF Holders
<1>5. ASSUME t \in Loops, pc[t] = "release", p \notin {"acquired", "release"}
      PROVE  <<"release", t>> \in Holders /\ Holders' = Holders \ {<<"release", t>>}
  BY <1>1, <1>2, <1>5 DEF Holders
<1> QED
  BY <1>3, <1>4, <1>5

LEMMA HoldersMove ==
  ASSUME TypeOK
  PROVE  /\ \A t \in Threads : Acquired(t) =>
              /\ <<"thread", t>> \in Holders
              /\ Holders' \subseteq (Holders \ {<<"thread", t>>}) \cup {<<"loop", on[t]>>}
         /\ \A l \in Loops : CloseRelease(l) =>
              \/ Holders' = Holders
              \/ /\ <<"loop", l>> \in Holders
                 /\ Holders' \subseteq (Holders \ {<<"loop", l>>}) \cup {<<"release", l>>}
<1>1. Loops \subseteq Threads
  BY DEF Threads
<1>2. ASSUME NEW t \in Threads, Acquired(t)
      PROVE  /\ <<"thread", t>> \in Holders
             /\ Holders' \subseteq (Holders \ {<<"thread", t>>}) \cup {<<"loop", on[t]>>}
  <2>1. /\ pc[t] = "acquired" /\ Ensured(t) \notin {"acquired", "release"}
        /\ \A u \in Threads : pc'[u] = IF u = t THEN Ensured(t) ELSE pc[u]
        /\ \A l \in Loops : acquired'[l] => acquired[l] \/ l = on[t]
    BY <1>2 DEF Acquired, Ensured, Go, TypeOK
  <2> QED
    BY <1>1, <2>1 DEF Holders
<1>3. ASSUME NEW l \in Loops, CloseRelease(l), ~acquired[l] PROVE Holders' = Holders
  <2>1. /\ pc[l] = "close"
        /\ \A u \in Threads : pc'[u] = IF u = l THEN "returned" ELSE pc[u]
        /\ \A k \in Loops : acquired'[k] <=> acquired[k]
    BY <1>1, <1>3 DEF CloseRelease, Go, TypeOK
  <2> QED
    BY <1>1, <2>1 DEF Holders
<1>4. ASSUME NEW l \in Loops, CloseRelease(l), acquired[l]
      PROVE  /\ <<"loop", l>> \in Holders
             /\ Holders' \subseteq (Holders \ {<<"loop", l>>}) \cup {<<"release", l>>}
  <2>1. /\ pc[l] = "close"
        /\ \A u \in Threads : pc'[u] = IF u = l THEN "release" ELSE pc[u]
        /\ \A k \in Loops : acquired'[k] <=> (k # l /\ acquired[k])
    BY <1>1, <1>4 DEF CloseRelease, Go, TypeOK
  <2> QED
    BY <1>1, <1>4, <2>1 DEF Holders
<1> QED
  BY <1>2, <1>3, <1>4

-----------------------------------------------------------------------------
\* The reactor.

\* A thread that goes on without a driver moving.
LEMMA ReactorFrame ==
  ASSUME HeldInv, TypeOK', CountCovers', ReactorLocked', UNCHANGED <<driver, starts>>,
         UNCHANGED <<ssock, listening, stopping, upset, left>>, ~upset /\ ~left => Owned'
  PROVE  HeldInv'
<1>1. Numbered'
  BY DEF HeldInv, Numbered
<1>2. ~upset /\ ~left => OneDriver'
  BY DEF HeldInv, OneDriver, Alive
<1> QED
  BY <1>1, <1>2 DEF HeldInv

\* Nobody else is inside of _lock.
LEMMA LockFacts ==
  ASSUME HeldInv
  PROVE  /\ rlock = None => \A u \in Threads : pc[u] \notin LockedPCs
         /\ \A t \in Threads : pc[t] \in LockedPCs =>
              rlock = t /\ count = 0 /\ \A u \in Threads : u # t => pc[u] \notin LockedPCs
         /\ \A t \in Threads : t # None
         /\ rlock # None => rlock \in Threads
  BY ThreadsAssumption DEF HeldInv, ReactorLocked, TypeOK, Threads

LEMMA AcquireKeeps ==
  ASSUME HeldInv, TypeOK', NEW t \in Threads, Acquire(t)
  PROVE  HeldInv'
<1> USE DEF HeldInv
<1>0. /\ pc[t] = "acquire" /\ rlock = None /\ acquired' = acquired /\ owns' = owns /\ thread' = thread
      /\ UNCHANGED <<driver, starts, ssock, listening, stopping, upset, left>>
      /\ \A u \in Threads : pc[u] \notin LockedPCs
  BY LockFacts DEF Acquire, rtVars, loopVars
<1>1. CASE count = 0
  <2>1. /\ rlock' = t /\ count' = count /\ Go(t, "start")
        /\ \A u \in Threads : pc'[u] = IF u = t THEN "start" ELSE pc[u]
    BY <1>1 DEF Acquire, Go, TypeOK
  <2>2. CountCovers'
    BY <1>0, <2>1, HoldersGo DEF CountCovers
  <2>3. ReactorLocked'
    BY <1>0, <1>1, <2>1, LockFacts DEF ReactorLocked, LockedPCs
  <2>4. ASSUME ~upset, ~left PROVE Owned'
    <3>1. ~owns /\ ~stopping /\ \A d \in Drivers \ {0} : ~Alive(d)
      BY <1>0, <1>1, <2>4 DEF Owned
    <3> QED
      BY <1>0, <1>1, <2>1, <3>1, LockFacts DEF Owned, Alive, LockedPCs
  <2> QED
    BY <1>0, <2>2, <2>3, <2>4, ReactorFrame
<1>2. CASE count # 0
  <2>1. /\ rlock' = rlock /\ count' = count + 1 /\ Go(t, "acquired")
        /\ \A u \in Threads : pc'[u] = IF u = t THEN "acquired" ELSE pc[u]
    BY <1>2 DEF Acquire, Go, TypeOK
  <2>2. CountCovers'
    <3>1. Holders' = Holders \cup {<<"thread", t>>}
      BY <1>0, <2>1, HoldersGo
    <3>2. Cardinality(Holders') <= Cardinality(Holders) + 1 /\ Cardinality(Holders') \in Nat
      BY <3>1, CountedOnce, HoldersFinite, FS_AddElement, FS_CardinalityType
    <3> QED
      BY <2>1, <3>2, HoldersFinite DEF CountCovers, TypeOK
  <2>3. ReactorLocked'
    BY <1>0, <2>1, LockFacts DEF ReactorLocked, LockedPCs
  <2>4. ASSUME ~upset, ~left PROVE Owned'
    BY <1>0, <1>2, <2>1, <2>4 DEF Owned, Alive, Driving, LockedPCs, TypeOK
  <2> QED
    BY <1>0, <2>2, <2>3, <2>4, ReactorFrame
<1> QED
  BY <1>1, <1>2

LEMMA AcquiredKeeps ==
  ASSUME HeldInv, TypeOK', NEW t \in Threads, Acquired(t)
  PROVE  HeldInv'
<1> USE DEF HeldInv
<1>0. /\ pc[t] = "acquired" /\ Ensured(t) \notin LockedPCs
      /\ rlock' = rlock /\ count' = count /\ owns' = owns /\ thread' = thread
      /\ UNCHANGED <<driver, starts, ssock, listening, stopping, upset, left>>
      /\ \A u \in Threads : pc'[u] = IF u = t THEN Ensured(t) ELSE pc[u]
  BY DEF Acquired, Ensured, reactorVars, rtVars, Go, LockedPCs, TypeOK
<1>1. CountCovers'
  <2>1. Cardinality(Holders') <= Cardinality(Holders)
    BY HoldersMove, HoldersFinite, CountedOnce
  <2>2. Cardinality(Holders') \in Nat
    BY HoldersFinite
  <2> QED
    BY <1>0, <2>1, <2>2, HoldersFinite DEF CountCovers, TypeOK
<1>2. ReactorLocked'
  BY <1>0 DEF ReactorLocked, LockedPCs
<1>3. ASSUME ~upset, ~left PROVE Owned'
  BY <1>0, <1>3, LockFacts DEF Owned, Alive, Driving, LockedPCs
<1> QED
  BY <1>0, <1>1, <1>2, <1>3, ReactorFrame

LEMMA CloseReleaseKeeps ==
  ASSUME HeldInv, TypeOK', NEW l \in Loops, CloseRelease(l)
  PROVE  HeldInv'
<1> USE DEF HeldInv
<1>0. /\ pc[l] = "close" /\ l \in Threads
      /\ rlock' = rlock /\ count' = count /\ owns' = owns /\ thread' = thread
      /\ UNCHANGED <<driver, starts, ssock, listening, stopping, upset, left>>
      /\ \E p \in {"release", "returned"} : \A u \in Threads : pc'[u] = IF u = l THEN p ELSE pc[u]
  BY DEF CloseRelease, reactorVars, rtVars, Go, TypeOK, Threads
<1>1. CountCovers'
  <2>1. Cardinality(Holders') <= Cardinality(Holders)
    <3>1. CASE Holders' = Holders
      BY <3>1, HoldersFinite
    <3>2. CASE /\ <<"loop", l>> \in Holders
               /\ Holders' \subseteq (Holders \ {<<"loop", l>>}) \cup {<<"release", l>>}
      BY <3>2, HoldersFinite, CountedOnce
    <3> QED
      BY <3>1, <3>2, HoldersMove
  <2>2. Cardinality(Holders') \in Nat
    BY HoldersFinite
  <2> QED
    BY <1>0, <2>1, <2>2, HoldersFinite DEF CountCovers, TypeOK
<1>2. ReactorLocked'
  BY <1>0 DEF ReactorLocked, LockedPCs
<1>3. ASSUME ~upset, ~left PROVE Owned'
  BY <1>0, <1>3, LockFacts DEF Owned, Alive, Driving, LockedPCs
<1> QED
  BY <1>0, <1>1, <1>2, <1>3, ReactorFrame

LEMMA StartedKeeps ==
  ASSUME HeldInv, TypeOK', NEW t \in Threads, Started(t)
  PROVE  HeldInv'
<1> USE DEF HeldInv
<1>0. /\ pc[t] = "starting" /\ ssock # None
      /\ rlock' = None /\ count' = 1 /\ owns' = owns /\ thread' = thread
      /\ UNCHANGED <<driver, starts, ssock, listening, stopping, upset, left, acquired>>
      /\ Go(t, "acquired")
      /\ \A u \in Threads : pc'[u] = IF u = t THEN "acquired" ELSE pc[u]
  BY DEF Started, rtVars, loopVars, Go, TypeOK
<1>1. CountCovers'
  <2>1. count = 0 /\ Cardinality(Holders) = 0
    BY <1>0, LockFacts, HoldersFinite DEF LockedPCs, CountCovers
  <2>2. Holders' = Holders \cup {<<"thread", t>>}
    BY <1>0, HoldersGo
  <2>3. Cardinality(Holders') <= Cardinality(Holders) + 1
    BY <2>2, CountedOnce, HoldersFinite
  <2> QED
    BY <1>0, <2>1, <2>3 DEF CountCovers
<1>2. ReactorLocked'
  BY <1>0, LockFacts DEF ReactorLocked, LockedPCs
<1>3. ASSUME ~upset, ~left PROVE Owned'
  <2>1. /\ rlock = t /\ owns /\ thread \in Drivers \ {0} /\ ~stopping
        /\ driver[thread] \in {"ssock"} \cup DrivingPCs
    BY <1>0, <1>3, LockFacts DEF Owned, LockedPCs
  <2>2. Driving(thread)
    BY <1>0, <1>3, <2>1 DEF OneDriver, Alive, Driving, DrivingPCs, SockPCs, TypeOK
  <2>3. \A d \in Drivers \ {0} : Alive(d) => d = thread
    BY <1>3 DEF Owned
  <2>4. \A u \in Threads : pc'[u] \notin LockedPCs
    BY <1>0, LockFacts DEF LockedPCs
  <2> QED
    BY <1>0, <2>1, <2>2, <2>3, <2>4 DEF Owned, Alive, Driving, LockedPCs
<1> QED
  BY <1>0, <1>1, <1>2, <1>3, ReactorFrame

\* Where a thread goes whose acquire has failed.
LEMMA FailedGoes ==
  ASSUME NEW t \in Threads, Failed(t)
  PROVE  \E p \in {"idle", "session", "close", "ensure"} : Go(t, p)
  BY DEF Failed

\* _start is refused.
LEMMA StartRefused ==
  ASSUME HeldInv, TypeOK', NEW t \in Threads, pc[t] \in {"start", "starting"}, rlock' = None, Failed(t),
         UNCHANGED <<count, owns, thread, driver, starts, ssock, listening, stopping, acquired>>,
         UNCHANGED left, upset' \/ (upset' = upset /\ pc[t] = "start")
  PROVE  HeldInv'
<1> USE DEF HeldInv
<1>0. PICK p \in {"idle", "session", "close", "ensure"} : Go(t, p)
  BY FailedGoes
<1>1. \A u \in Threads : pc'[u] = IF u = t THEN p ELSE pc[u]
  BY <1>0 DEF Go, TypeOK
<1>2. rlock = t /\ count = 0 /\ \A u \in Threads : pc'[u] \notin LockedPCs
  BY <1>1, LockFacts DEF LockedPCs
<1>3. CountCovers'
  BY <1>0, HoldersGo DEF CountCovers
<1>4. ReactorLocked'
  BY <1>2, LockFacts DEF ReactorLocked
<1>5. Numbered'
  BY DEF Numbered
<1>6. ASSUME ~upset', ~left' PROVE OneDriver' /\ Owned'
  <2>1. ~upset /\ ~left /\ pc[t] = "start" /\ OneDriver /\ Owned
    BY <1>6
  <2>2. ~owns /\ ~stopping /\ \A d \in Drivers \ {0} : ~Alive(d)
    BY <1>2, <2>1 DEF Owned
  <2>3. OneDriver'
    BY <2>1 DEF OneDriver, Alive
  <2>4. Owned'
    BY <1>2, <2>2 DEF Owned, Alive, LockedPCs
  <2> QED
    BY <2>3, <2>4
<1> QED
  BY <1>3, <1>4, <1>5, <1>6

\* Nobody drives the runtime when the reactor launches a thread.
LEMMA StartLaunches ==
  ASSUME HeldInv, TypeOK', NEW t \in Threads, pc[t] = "start", Go(t, "starting"), ssock = None,
         starts < MaxStarts, starts' = starts + 1, Launch(starts + 1), thread' = starts + 1, owns' = TRUE,
         UNCHANGED <<count, rlock, ssock, listening, stopping, acquired, left>>
  PROVE  HeldInv'
<1> USE DEF HeldInv
<1>1. \A u \in Threads : pc'[u] = IF u = t THEN "starting" ELSE pc[u]
  BY DEF Go, TypeOK
<1>2. rlock = t /\ rlock' = t /\ count = 0 /\ \A u \in Threads : u # t => pc'[u] \notin LockedPCs
  BY <1>1, LockFacts DEF LockedPCs
<1>3. starts \in Nat /\ starts + 1 \in Drivers \ {0} /\ driver[starts + 1] = "none"
  BY StartsAssumption DEF TypeOK, Numbered, Drivers
<1>4. \A d \in Drivers : driver'[d] = IF d = starts + 1 THEN "ssock" ELSE driver[d]
  BY DEF Launch, TypeOK
<1>5. CountCovers'
  <2>1. \A u \in Threads : /\ pc'[u] = "acquired" <=> pc[u] = "acquired"
                           /\ pc'[u] = "release" <=> pc[u] = "release"
    BY <1>1
  <2>2. Holders' = Holders
    BY <2>1 DEF Holders, Threads
  <2> QED
    BY <2>2 DEF CountCovers
<1>6. ReactorLocked'
  BY <1>1, <1>2 DEF ReactorLocked, LockedPCs
<1>7. Numbered'
  BY <1>3, <1>4 DEF Numbered, Drivers
<1>8. ASSUME ~upset', ~left' PROVE OneDriver' /\ Owned'
  <2>1. OneDriver /\ Owned /\ \A d \in Drivers : ~Alive(d)
    BY <1>8 DEF Launch
  <2>2. ~stopping
    BY <1>2, <2>1 DEF Owned
  <2>3. \A d \in Drivers : d # starts + 1 => driver'[d] \in {"none", "ended"}
    BY <1>4, <2>1 DEF Alive
  <2>4. driver'[starts + 1] = "ssock"
    BY <1>3, <1>4
  <2>5. ~listening
    BY <2>1, StartsAssumption DEF OneDriver, Alive, Drivers
  <2>6. \A d \in Drivers : ssock # d
    BY <2>1, StartsAssumption DEF Drivers
  <2>7. OneDriver'
    BY <1>3, <2>3, <2>4, <2>5, <2>6 DEF OneDriver, Alive, SockPCs, EndingPCs
  <2>8. Owned'
    BY <1>1, <1>2, <1>3, <2>2, <2>3, <2>4, LockFacts DEF Owned, Alive, LockedPCs
  <2> QED
    BY <2>7, <2>8
<1> QED
  BY <1>5, <1>6, <1>7, <1>8

LEMMA StartKeeps ==
  ASSUME HeldInv, TypeOK', NEW t \in Threads, Start(t)
  PROVE  HeldInv'
<1> USE DEF HeldInv
<1>0. /\ pc[t] = "start" /\ UNCHANGED <<ssock, listening, stopping, acquired, left>>
      /\ rlock = t /\ count = 0 /\ \A u \in Threads : u # t => pc[u] \notin LockedPCs
  BY LockFacts DEF Start, loopVars, LockedPCs
<1>1. CASE /\ rlock' = None /\ Failed(t) /\ UNCHANGED <<count, owns, thread, driver, starts, upset>>
  BY <1>0, <1>1, StartRefused
<1>2. CASE /\ ssock # None /\ owns' = FALSE /\ count' = 1 /\ rlock' = None /\ Go(t, "acquired")
           /\ UNCHANGED <<thread, driver, starts, upset>>
  <2>1. \A u \in Threads : pc'[u] = IF u = t THEN "acquired" ELSE pc[u]
    BY <1>2 DEF Go, TypeOK
  <2>2. CountCovers'
    <3>1. Cardinality(Holders) = 0
      BY <1>0, HoldersFinite DEF CountCovers
    <3>2. Holders' = Holders \cup {<<"thread", t>>}
      BY <1>0, <1>2, HoldersGo
    <3>3. Cardinality(Holders') <= Cardinality(Holders) + 1
      BY <3>2, CountedOnce, HoldersFinite
    <3> QED
      BY <1>2, <3>1, <3>3 DEF CountCovers
  <2>3. ReactorLocked'
    BY <1>0, <1>2, <2>1, LockFacts DEF ReactorLocked, LockedPCs
  <2>4. ASSUME ~upset, ~left PROVE Owned'
    <3>1. ~owns /\ ~stopping /\ \A d \in Drivers \ {0} : ~Alive(d)
      BY <1>0, <2>4 DEF Owned
    <3>2. ssock \in Drivers /\ driver[ssock] \in SockPCs /\ driver[ssock] \notin EndingPCs
      BY <1>2, <2>4, <3>1 DEF OneDriver, TypeOK
    <3>3. ssock = 0 /\ Driving(0)
      BY <3>1, <3>2 DEF Driving, Alive, SockPCs, EndingPCs
    <3> QED
      BY <1>0, <1>2, <2>1, <3>1, <3>3 DEF Owned, Alive, Driving, LockedPCs
  <2> QED
    BY <1>0, <1>2, <2>2, <2>3, <2>4, ReactorFrame
<1>3. CASE /\ ssock = None /\ starts < MaxStarts /\ starts' = starts + 1 /\ Launch(starts + 1)
           /\ thread' = starts + 1 /\ owns' = TRUE /\ Go(t, "starting") /\ UNCHANGED <<count, rlock>>
  BY <1>0, <1>3, StartLaunches
<1> QED
  BY <1>1, <1>2, <1>3 DEF Start

LEMMA StartTimeoutKeeps ==
  ASSUME HeldInv, TypeOK', NEW t \in Threads, StartTimeout(t)
  PROVE  HeldInv'
  BY StartRefused DEF StartTimeout, rtVars, loopVars

LEMMA ReleaseHolds ==
  ASSUME HeldInv, TypeOK', NEW l \in Loops, Release(l)
  PROVE  HeldInv'
<1> USE DEF HeldInv
<1>0. /\ pc[l] = "release" /\ rlock = None /\ l \in Threads
      /\ acquired' = acquired /\ owns' = owns /\ thread' = thread
      /\ UNCHANGED <<driver, starts, ssock, listening, stopping, upset, left>>
      /\ \A u \in Threads : pc[u] \notin LockedPCs
  BY LockFacts DEF Release, rtVars, loopVars, Threads
<1>1. PICK p \in {"stop", "returned"} :
        /\ Go(l, p)
        /\ p = "stop" => count = 1 /\ owns /\ rlock' = l
        /\ p # "stop" => ~(count = 1 /\ owns) /\ rlock' = None
  <2>1. CASE count = 1 /\ owns
    <3> WITNESS "stop" \in {"stop", "returned"}
    <3> QED
      BY <2>1 DEF Release
  <2>2. CASE ~(count = 1 /\ owns)
    <3> WITNESS "returned" \in {"stop", "returned"}
    <3> QED
      BY <1>0, <2>2 DEF Release
  <2> QED
    BY <2>1, <2>2
<1>2. \A u \in Threads : pc'[u] = IF u = l THEN p ELSE pc[u]
  BY <1>1 DEF Go, TypeOK
<1>3. <<"release", l>> \in Holders /\ Holders' = Holders \ {<<"release", l>>}
  BY <1>0, <1>1, HoldersGo
<1>4. Cardinality(Holders') = Cardinality(Holders) - 1
  BY <1>3, CountedOnce, HoldersFinite
<1>5. count \in Nat /\ count > 0 /\ count' = count - 1
  <2>1. count \in Nat /\ count # 0
    BY <1>4, HoldersFinite DEF CountCovers, TypeOK
  <2> QED
    BY <2>1 DEF Release
<1>6. CountCovers'
  BY <1>4, <1>5, HoldersFinite DEF CountCovers
<1>7. ReactorLocked'
  BY <1>0, <1>1, <1>2, <1>5, LockFacts DEF ReactorLocked, LockedPCs
<1>8. ASSUME ~upset, ~left PROVE Owned'
  <2>1. ~stopping /\ (IF owns THEN Driving(thread) ELSE Driving(0))
    BY <1>0, <1>5, <1>8 DEF Owned
  <2> QED
    BY <1>0, <1>1, <1>2, <1>5, <1>8, <2>1, LockFacts DEF Owned, Alive, Driving, LockedPCs
<1> QED
  BY <1>0, <1>6, <1>7, <1>8, ReactorFrame

LEMMA StopRuntimeKeeps ==
  ASSUME HeldInv, TypeOK', NEW l \in Loops, StopRuntime(l)
  PROVE  HeldInv'
<1> USE DEF HeldInv
<1>0. /\ pc[l] = "stop" /\ l \in Threads /\ rlock = l /\ rlock' = l /\ count = 0 /\ count' = 0
      /\ acquired' = acquired /\ owns' = FALSE /\ thread' = thread /\ stopping' = TRUE
      /\ UNCHANGED <<driver, starts, ssock, listening, upset, left>> /\ Go(l, "join")
      /\ \A u \in Threads : u # l => pc[u] \notin LockedPCs
      /\ \A u \in Threads : pc'[u] = IF u = l THEN "join" ELSE pc[u]
  BY LockFacts DEF StopRuntime, Stop, loopVars, Threads, LockedPCs, Go, TypeOK
<1>1. CountCovers'
  BY <1>0, HoldersGo DEF CountCovers
<1>2. ReactorLocked'
  BY <1>0 DEF ReactorLocked, LockedPCs
<1>3. Numbered'
  BY <1>0 DEF Numbered
<1>4. ASSUME ~upset', ~left' PROVE OneDriver' /\ Owned'
  <2>1. OneDriver /\ Owned
    BY <1>0, <1>4
  <2>2. OneDriver'
    BY <1>0, <2>1 DEF OneDriver, Alive
  <2>3. owns /\ thread \in Drivers \ {0} /\ driver[thread] \in {"ssock"} \cup DrivingPCs
    BY <1>0, <2>1 DEF Owned
  <2>4. \A d \in Drivers \ {0} : Alive(d) => d = thread
    BY <2>1 DEF Owned
  <2>5. Owned'
    BY <1>0, <2>3, <2>4, LockFacts DEF Owned, Alive, DrivingPCs, LockedPCs
  <2> QED
    BY <2>2, <2>5
<1> QED
  BY <1>1, <1>2, <1>3, <1>4

LEMMA JoinThreadKeeps ==
  ASSUME HeldInv, TypeOK', NEW l \in Loops, JoinThread(l)
  PROVE  HeldInv'
<1> USE DEF HeldInv
<1>0. /\ pc[l] = "join" /\ l \in Threads /\ rlock = l /\ rlock' = None /\ count = 0 /\ count' = 0
      /\ acquired' = acquired /\ owns' = owns /\ thread' = None
      /\ UNCHANGED <<driver, starts, ssock, listening, stopping>> /\ Go(l, "returned")
      /\ left' = left /\ upset' = (upset \/ Alive(thread))
      /\ \A u \in Threads : pc'[u] = IF u = l THEN "returned" ELSE pc[u]
      /\ \A u \in Threads : pc'[u] \notin LockedPCs
  BY LockFacts DEF JoinThread, rtVars, loopVars, Threads, LockedPCs, Go, TypeOK
<1>1. CountCovers'
  BY <1>0, HoldersGo DEF CountCovers
<1>2. ReactorLocked'
  BY <1>0, LockFacts DEF ReactorLocked
<1>3. Numbered'
  BY <1>0 DEF Numbered
<1>4. ASSUME ~upset', ~left' PROVE OneDriver' /\ Owned'
  <2>1. OneDriver /\ Owned /\ ~Alive(thread)
    BY <1>0, <1>4
  <2>2. OneDriver'
    BY <1>0, <2>1 DEF OneDriver, Alive
  <2>3. ~owns /\ ~stopping /\ \A d \in Drivers \ {0} : ~Alive(d)
    BY <1>0, <2>1 DEF Owned
  <2>4. Owned'
    BY <1>0, <2>3 DEF Owned, Alive, LockedPCs
  <2> QED
    BY <2>2, <2>4
<1> QED
  BY <1>1, <1>2, <1>3, <1>4

\* The application's own driver.
LEMMA ExternalKeeps ==
  ASSUME HeldInv, TypeOK', External
  PROVE  HeldInv'
<1> USE DEF HeldInv
<1>0. /\ driver[0] = "none" /\ rlock' = rlock /\ count' = count /\ owns' = owns /\ thread' = thread
      /\ UNCHANGED <<starts, ssock, listening, stopping, acquired, pc>>
      /\ left' = left /\ upset' = (upset \/ \E e \in Drivers : Alive(e))
      /\ 0 \in Drivers /\ \A d \in Drivers : driver'[d] = IF d = 0 THEN "ssock" ELSE driver[d]
  BY StartsAssumption DEF External, Launch, reactorVars, loopVars, TypeOK, Drivers
<1>1. CountCovers'
  BY <1>0 DEF CountCovers, Holders
<1>2. ReactorLocked'
  BY <1>0 DEF ReactorLocked
<1>3. Numbered'
  BY <1>0 DEF Numbered, TypeOK, Drivers
<1>4. ASSUME ~upset', ~left' PROVE OneDriver' /\ Owned'
  <2>1. OneDriver /\ Owned /\ \A d \in Drivers : driver[d] \in {"none", "ended"}
    BY <1>0, <1>4 DEF Alive
  <2>2. ~listening /\ \A d \in Drivers : ssock # d
    BY <1>0, <2>1 DEF OneDriver, SockPCs
  <2>3. OneDriver'
    BY <1>0, <2>1, <2>2 DEF OneDriver, Alive, SockPCs, EndingPCs
  <2>4. ~owns
    BY <2>1 DEF Owned, DrivingPCs
  <2>5. ~stopping
    BY <2>1, LockFacts DEF Owned, Alive
  <2>6. Owned'
    BY <1>0, <2>1, <2>4, <2>5 DEF Owned, Alive, Driving
  <2> QED
    BY <2>3, <2>6
<1> QED
  BY <1>1, <1>2, <1>3, <1>4

-----------------------------------------------------------------------------
LEMMA HeldInvInit == Init => HeldInv
<1> SUFFICES ASSUME Init PROVE HeldInv
  OBVIOUS
<1>1. TypeOK
  BY TypeInit
<1>2. CountCovers
  <2>1. \A t \in Threads : pc[t] = "idle"
    BY DEF Init
  <2>2. \A l \in Loops : ~acquired[l] /\ l \in Threads
    BY DEF Init, Threads
  <2>3. Holders = {}
    BY <2>1, <2>2 DEF Holders
  <2> QED
    BY <2>3, FS_EmptySet DEF CountCovers, Init
<1>3. ReactorLocked
  BY LockFacts, ThreadsAssumption DEF Init, ReactorLocked, LockedPCs, Threads
<1>4. Numbered /\ OneDriver /\ Owned
  <2>1. \A d \in Drivers : driver[d] = "none" /\ ssock # d
    BY StartsAssumption DEF Init, Drivers
  <2>2. 0 \in Drivers
    BY StartsAssumption DEF Drivers
  <2> QED
    BY <2>1, <2>2 DEF Init, Numbered, OneDriver, Owned, Alive, SockPCs, EndingPCs
<1> QED
  BY <1>1, <1>2, <1>3, <1>4 DEF HeldInv

LEMMA HeldInvStep == HeldInv /\ [Next]_vars => HeldInv'
<1> SUFFICES ASSUME HeldInv, [Next]_vars PROVE HeldInv'
  OBVIOUS
<1>0. TypeOK /\ TypeOK'
  BY TypeStep DEF HeldInv
<1>1. ASSUME NEW t \in Threads, ReactorStep(t), EnsureReactor(t) => HeldInv' PROVE HeldInv'
  BY <1>0, <1>1, AcquireKeeps, StartKeeps, StartedKeeps, StartTimeoutKeeps, AcquiredKeeps, Zenon
    DEF ReactorStep
<1>2. Loops \subseteq Threads /\ Callers \subseteq Threads
  BY DEF Threads
<1>3. ASSUME NEW l \in Loops, LoopStep(l) PROVE HeldInv'
  <2>1. CASE ReactorStep(l)
    BY <1>0, <1>1, <1>2, <2>1, AsideSteps, AsideKeeps
  <2>2. CASE Release(l) \/ StopRuntime(l) \/ JoinThread(l) \/ CloseRelease(l)
    BY <1>0, <1>3, <2>2, ReleaseHolds, StopRuntimeKeeps, JoinThreadKeeps, CloseReleaseKeeps
  <2>3. CASE \/ RunUntilComplete(l) \/ DoneWait(l) \/ CancelAllTasks(l) \/ RunForever(l)
             \/ ForeverEnds(l) \/ CloseFlag(l)
    BY <1>0, <1>3, <2>3, AsideSteps, AsideKeeps
  <2> QED
    BY <1>3, <2>1, <2>2, <2>3, Zenon DEF LoopStep
<1>4. ASSUME NEW c \in Callers, CallerStep(c) PROVE HeldInv'
  <2>1. CASE ReactorStep(c)
    BY <1>0, <1>1, <1>2, <2>1, AsideSteps, AsideKeeps
  <2>2. CASE CheckClosed(c) \/ Push(c)
    BY <1>0, <1>4, <2>2, AsideSteps, AsideKeeps
  <2> QED
    BY <1>4, <2>1, <2>2, Zenon DEF CallerStep
<1>5. ASSUME NEW l \in Loops, AppStep(l) \/ WorkStep(l) PROVE HeldInv'
  BY <1>0, <1>5, AsideSteps, AsideKeeps
<1>6. ASSUME NEW d \in Drivers, DriverStep(d) \/ PollFails(d) PROVE HeldInv'
  BY <1>0, <1>6, DriverKeeps
<1>7. CASE External
  BY <1>0, <1>7, ExternalKeeps
<1>8. CASE UNCHANGED vars
  <2>1. Aside
    BY <1>8 DEF vars, Aside, reactorVars, rtVars, loopVars
  <2> QED
    BY <1>0, <2>1, AsideKeeps
<1> QED
  BY <1>3, <1>4, <1>5, <1>6, <1>7, <1>8, NextSteps, Zenon

LEMMA HeldInvRuns == HeldInv => HeldRuntimeRuns
<1> SUFFICES ASSUME HeldInv PROVE HeldRuntimeRuns
  OBVIOUS
<1> USE DEF HeldInv
<1>0. 0 \in Drivers
  BY StartsAssumption DEF Drivers
<1>1. ASSUME ~upset, ~left, count > 0, rlock = None PROVE ~stopping /\ \E d \in Drivers : Driving(d)
  BY <1>0, <1>1 DEF Owned
<1>2. ASSUME ~upset, ~left, Driving(0) PROVE ~stopping
  <2>1. Alive(0)
    BY <1>2 DEF Driving, Alive
  <2>2. SUFFICES ASSUME stopping PROVE FALSE
    OBVIOUS
  <2>3. rlock \in Threads /\ pc[rlock] = "join" /\ Alive(thread) /\ thread \in Drivers \ {0}
    BY <1>2, <2>2, LockFacts DEF Owned
  <2> QED
    BY <1>0, <1>2, <2>1, <2>3 DEF OneDriver
<1>3. ASSUME NEW l \in Loops, acquired[l] PROVE count > 0
  <2>1. <<"loop", l>> \in Holders
    BY <1>3 DEF Holders, Threads
  <2>2. Cardinality(Holders) # 0
    BY <2>1, HoldersFinite, FS_EmptySet
  <2> QED
    BY <2>2, HoldersFinite DEF CountCovers, TypeOK
<1> QED
  BY <1>1, <1>2, <1>3 DEF HeldRuntimeRuns

\* As long as a loop holds the runtime it is driven and nobody stops it, however many loops
\* acquire and release it (_Reactor.acquire, release, _start and _stop of _reactor.py), however
\* many threads call call_soon_threadsafe meanwhile, and whoever drives it; and _stop never
\* stops what the application drives itself.  All that as long as no wait has run out and no
\* driver has failed or left its poll loop (_run of runtime.rs); the count covers the loops
\* that have acquired the runtime even then.
THEOREM HeldRuntimeIsDriven == Spec => []HeldRuntimeRuns
<1>1. Init => HeldInv
  BY HeldInvInit
<1>2. HeldInv /\ [Next]_vars => HeldInv'
  BY HeldInvStep
<1>3. HeldInv => HeldRuntimeRuns
  BY HeldInvRuns
<1> QED
  BY <1>1, <1>2, <1>3, PTL DEF Spec
=============================================================================
