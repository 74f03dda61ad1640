------------------------- MODULE WorkScheduleProofs -------------------------
(***************************************************************************)
(* Proofs about WorkSchedule, for every number of workers, every set of    *)
(* other threads and every set of handles.                                 *)
(***************************************************************************)
EXTENDS WorkSchedule, QueueLemmas, FiniteSetTheorems, TLAPS

-----------------------------------------------------------------------------
\* The inductive strengthening, part by part.

\* What the control state says of the worker's own variables: from set_idle on
\* rescan is set, a token is only ever held where work_loop can give it back,
\* and the workers are told to stop exactly when the reactor has left its loop.
Shape ==
  /\ \A w \in Workers :
       /\ pc[w] \in {"unidle", "unidle_dec", "absorb", "drop", "final_scan", "park",
                     "woken", "woken_dec", "stop_unidle", "stop_unidle_dec"} => rescan[w]
       /\ pc[w] \in {"set_flag", "set_count"} => ~rescan[w]
       /\ pc[w] \in {"drop", "release", "stop_drop"} => speculating[w]
       /\ pc[w] \in {"run", "final_scan", "park", "woken", "woken_dec"} \cup UnparkPCs
            => ~speculating[w]
       /\ idleFlag[w] => Listed(w)
       /\ pc[w] \in {"stop_unidle", "stop_unidle_dec", "stop_drop", "exiting", "exited"}
            => workStopping
  /\ workStopping <=> pc[Reactor] \in {"stop_unpark", "stop_wait", "stopped"}
  /\ \A t \in Threads :
       pc[t] \notin {"find_steal", "wake_scan", "wake_dec", "wake_unpark", "stop_unpark"}
         => scan[t] = 1

\* The worker has looked at an empty injector for the last time before it sleeps,
\* and nothing that has happened so far will make it look again.
Blind(w) ==
  /\ rescan[w] /\ ~speculating[w] /\ idleFlag[w] /\ ~permit[w]
  /\ pc[w] \in {"find_steal", "nothing", "park"}

\* The other thread e has pushed and may still claim a worker that is Blind now.
Signalling(e) ==
  \/ pc[e] \in {"one_load", "one_cas", "force_load", "force_add"}
  \/ At(e, "wake_scan") /\ scan[e] = 1

\* Somebody looks after a handle in the injector.
Watched ==
  injector # <<>> /\ ~workStopping
    => Signalling(Reactor) \/ \E w \in Workers : ~Blind(w)

\* The deque of a worker is empty from the moment it finds it so until it runs a
\* handle again.
LocalEmpty ==
  \A w \in Workers :
    pc[w] \in {"find_injector", "find_steal", "nothing", "set_flag", "set_count", "drop",
               "final_scan", "park", "woken", "woken_dec", "woken_check", "stop_unidle",
               "stop_unidle_dec", "stop_drop", "exiting", "exited"}
      => local[w] = <<>>

\* The counter stop_threads waits on.
Gone == {w \in Workers : At(w, "exited")}
PendingCounts ==
  /\ pending = N - Cardinality(Gone)
  /\ At(Reactor, "stopped") => pending <= 0
-----------------------------------------------------------------------------
\* Typing.

\* What the proofs need to know of the threads and of the loops over workers.
LEMMA ThreadFacts ==
  /\ Workers \subseteq Threads /\ Ext \subseteq Threads /\ Reactor \in Ext
  /\ \A t \in Threads : (t \in Workers /\ t \notin Ext) \/ (t \in Ext /\ t \notin Workers)
  /\ 1 \in Workers
  /\ \A v \in Workers : v # N => v + 1 \in Workers
  BY NAssumption, ThreadsAssumption DEF Workers, Threads

\* What the queue operations return.
LEMMA SeqFacts ==
  ASSUME NEW S, NEW s \in Seq(S)
  PROVE  /\ \A x \in S : Append(s, x) \in Seq(S)
         /\ s # <<>> => /\ Head(s) \in S
                        /\ Tail(s) \in Seq(S)
                        /\ s[Len(s)] \in S
                        /\ SubSeq(s, 1, Len(s) - 1) \in Seq(S)
  OBVIOUS

LEMMA ControlStep == TypeOK /\ [Next]_vars => ControlOK'
<1> SUFFICES ASSUME TypeOK, [Next]_vars PROVE ControlOK'
  OBVIOUS
<1> USE ThreadFacts DEF TypeOK, ControlOK, WorkerPCs, UnparkPCs, ExtPCs, At, Goto
<1>1. ASSUME NEW w \in Workers, FindLocal(w) PROVE ControlOK'
  BY <1>1, SMTT(30) DEF FindLocal, Found, Settle
<1>2. ASSUME NEW w \in Workers, FindInjector(w) PROVE ControlOK'
  <2>1. Found(w) \in WorkerPCs /\ "find_steal" \in WorkerPCs
    BY DEF Found, Settle
  <2> HIDE DEF WorkerPCs, UnparkPCs, ExtPCs
  <2> QED
    BY <1>2, <2>1 DEF FindInjector
<1>3. ASSUME NEW w \in Workers, FindSteal(w) PROVE ControlOK'
  BY <1>3 DEF FindSteal, Found, Settle
<1>4. ASSUME NEW w \in Workers, NothingFound(w) PROVE ControlOK'
  BY <1>4 DEF NothingFound
<1>5. ASSUME NEW w \in Workers, NothingLeft(w) PROVE ControlOK'
  BY <1>5 DEF NothingLeft, BreakLoop
<1>6. ASSUME NEW w \in Workers, SetFlag(w) PROVE ControlOK'
  BY <1>6 DEF SetFlag
<1>7. ASSUME NEW w \in Workers, SetCount(w) PROVE ControlOK'
  BY <1>7 DEF SetCount
<1>8. ASSUME NEW w \in Workers, Unidle(w) PROVE ControlOK'
  BY <1>8 DEF Unidle, ClearFlag
<1>9. ASSUME NEW w \in Workers, UnidleDec(w) PROVE ControlOK'
  BY <1>9 DEF UnidleDec, DecIdleCount, Settle
<1>10. ASSUME NEW w \in Workers, Absorb(w) PROVE ControlOK'
  BY <1>10 DEF Absorb, Settle
<1>11. ASSUME NEW w \in Workers, Release(w) PROVE ControlOK'
  BY <1>11 DEF Release
<1>12. ASSUME NEW w \in Workers, RunReturns(w) PROVE ControlOK'
  BY <1>12 DEF RunReturns
<1>13. ASSUME NEW w \in Workers, Drop(w) PROVE ControlOK'
  BY <1>13 DEF Drop
<1>14. ASSUME NEW w \in Workers, FinalScan(w) PROVE ControlOK'
  BY <1>14, SMTT(30) DEF FinalScan
<1>15. ASSUME NEW w \in Workers, Park(w) PROVE ControlOK'
  BY <1>15 DEF Park
<1>16. ASSUME NEW w \in Workers, Woken(w) PROVE ControlOK'
  BY <1>16 DEF Woken, ClearFlag
<1>17. ASSUME NEW w \in Workers, WokenDec(w) PROVE ControlOK'
  BY <1>17 DEF WokenDec, DecIdleCount
<1>18. ASSUME NEW w \in Workers, WokenCheck(w) PROVE ControlOK'
  BY <1>18 DEF WokenCheck
<1>19. ASSUME NEW w \in Workers, StopUnidle(w) PROVE ControlOK'
  BY <1>19 DEF StopUnidle, ClearFlag, BreakLoop
<1>20. ASSUME NEW w \in Workers, StopUnidleDec(w) PROVE ControlOK'
  BY <1>20 DEF StopUnidleDec, DecIdleCount, BreakLoop
<1>21. ASSUME NEW w \in Workers, StopDrop(w) PROVE ControlOK'
  BY <1>21 DEF StopDrop
<1>22. ASSUME NEW w \in Workers, Exit(w) PROVE ControlOK'
  BY <1>22 DEF Exit
<1>23. ASSUME NEW t \in Threads, OneLoad(t) PROVE ControlOK'
  BY <1>23 DEF OneLoad, Home
<1>24. ASSUME NEW t \in Threads, OneCas(t) PROVE ControlOK'
  BY <1>24 DEF OneCas, Home
<1>25. ASSUME NEW t \in Threads, ForceLoad(t) PROVE ControlOK'
  BY <1>25 DEF ForceLoad, Home
<1>26. ASSUME NEW t \in Threads, ForceAdd(t) PROVE ControlOK'
  BY <1>26 DEF ForceAdd
<1>27. ASSUME NEW t \in Threads, WakeScan(t) PROVE ControlOK'
  BY <1>27 DEF WakeScan
<1>28. ASSUME NEW t \in Threads, WakeDec(t) PROVE ControlOK'
  BY <1>28 DEF WakeDec
<1>29. ASSUME NEW t \in Threads, WakeUnpark(t) PROVE ControlOK'
  BY <1>29 DEF WakeUnpark, Home
<1>30. ASSUME NEW t \in Threads, WakeFail(t) PROVE ControlOK'
  BY <1>30 DEF WakeFail, Home
<1>31. ASSUME NEW t \in Threads, NEW h \in Handles, AddHandle(t, h) PROVE ControlOK'
  BY <1>31 DEF AddHandle, Home, PushInjector
<1>32. ASSUME NEW t \in Threads, NEW h \in Handles, DeferHandle(t, h) PROVE ControlOK'
  BY <1>32 DEF DeferHandle, Home, PushInjector
<1>33. ASSUME NEW t \in Threads, NEW h \in Handles, AddIOHandle(t, h) PROVE ControlOK'
  BY <1>33 DEF AddIOHandle, Home, PushInjector
<1>34. ASSUME StopThreads PROVE ControlOK'
  BY <1>34 DEF StopThreads
<1>35. ASSUME StopUnpark PROVE ControlOK'
  BY <1>35, SMTT(30) DEF StopUnpark
<1>36. ASSUME StopWait PROVE ControlOK'
  BY <1>36 DEF StopWait
<1>37. ASSUME UNCHANGED vars PROVE ControlOK'
  BY <1>37 DEF vars, queueVars, idleVars, stopVars
<1>38. QED
  BY <1>1, <1>2, <1>3, <1>4, <1>5, <1>6, <1>7, <1>8, <1>9, <1>10, <1>11, <1>12, <1>13,
     <1>14, <1>15, <1>16, <1>17, <1>18, <1>19, <1>20, <1>21, <1>22, <1>23, <1>24,
     <1>25, <1>26, <1>27, <1>28, <1>29, <1>30, <1>31, <1>32, <1>33, <1>34, <1>35,
     <1>36, <1>37 DEF Next, WorkerStep, UnparkStep, Push, Terminated

\* A worker that takes a handle out of a queue, wherever it goes with it.
LEMMA TakeOK ==
  ASSUME TypeOK, NEW w \in Workers, NEW h \in Handles, NEW l, Goto(w, l),
         cur' = [cur EXCEPT ![w] = h],
         injector' \in Seq(Handles), local' \in [Workers -> Seq(Handles)],
         UNCHANGED <<fresh, done>>
  PROVE  QueuesOK'
  BY HandlesAssumption, ThreadFacts DEF TypeOK, ControlOK, QueuesOK, Goto

\* A thread that pushes a handle.
LEMMA PushOK ==
  ASSUME TypeOK, NEW t \in Threads, At(t, Home(t)), NEW l, Goto(t, l),
         injector' \in Seq(Handles), local' \in [Workers -> Seq(Handles)],
         fresh' \subseteq fresh, UNCHANGED <<cur, done>>
  PROVE  QueuesOK'
  BY ThreadFacts DEF TypeOK, ControlOK, QueuesOK, InHandPCs, At, Goto, Home

LEMMA QueuesStep == TypeOK /\ [Next]_vars => QueuesOK'
<1> SUFFICES ASSUME TypeOK, [Next]_vars PROVE QueuesOK'
  OBVIOUS
<1> USE ThreadFacts, HandlesAssumption
    DEF TypeOK, ControlOK, QueuesOK, InHandPCs, UnparkPCs, At, Goto, queueVars
<1>1. ASSUME NEW w \in Workers, FindLocal(w) PROVE QueuesOK'
  <2>1. CASE local[w] # <<>>
    <3>1. local[w][Len(local[w])] \in Handles /\ SubSeq(local[w], 1, Len(local[w]) - 1) \in Seq(Handles)
      BY <2>1, SeqFacts
    <3>2. /\ cur' = [cur EXCEPT ![w] = local[w][Len(local[w])]]
          /\ local' = [local EXCEPT ![w] = SubSeq(local[w], 1, Len(local[w]) - 1)]
          /\ Goto(w, Found(w)) /\ UNCHANGED <<injector, fresh, done>>
      BY <1>1, <2>1 DEF FindLocal
    <3> QED
      BY <3>1, <3>2, TakeOK
  <2>2. CASE local[w] = <<>>
    BY <1>1, <2>2, SMTT(30) DEF FindLocal
  <2> QED
    BY <2>1, <2>2
<1>2. ASSUME NEW w \in Workers, FindInjector(w) PROVE QueuesOK'
  <2>1. CASE injector # <<>>
    <3>1. Head(injector) \in Handles /\ Tail(injector) \in Seq(Handles)
      BY <2>1, SeqFacts
    <3>2. /\ cur' = [cur EXCEPT ![w] = Head(injector)] /\ injector' = Tail(injector)
          /\ \E l : Goto(w, l)
          /\ UNCHANGED <<local, fresh, done>>
      BY <1>2, <2>1 DEF FindInjector
    <3> QED
      BY <3>1, <3>2, TakeOK
  <2>2. CASE injector = <<>>
    BY <1>2, <2>2 DEF FindInjector
  <2> QED
    BY <2>1, <2>2
<1>3. ASSUME NEW w \in Workers, FindSteal(w) PROVE QueuesOK'
  <2> DEFINE v == scan[w]
  <2>1. v \in Workers /\ local[v] \in Seq(Handles)
    OBVIOUS
  <2>2. CASE v # w /\ local[v] # <<>>
    <3>1. Head(local[v]) \in Handles /\ Tail(local[v]) \in Seq(Handles)
      BY <2>1, <2>2, SeqFacts
    <3>2. /\ cur' = [cur EXCEPT ![w] = Head(local[v])]
          /\ local' = [local EXCEPT ![v] = Tail(local[v])]
          /\ Goto(w, Found(w)) /\ UNCHANGED <<injector, fresh, done>>
      BY <1>3, <2>2 DEF FindSteal
    <3> QED
      BY <2>1, <3>1, <3>2, TakeOK
  <2>3. CASE ~(v # w /\ local[v] # <<>>)
    BY <1>3, <2>3, SMTT(30) DEF FindSteal
  <2> QED
    BY <2>2, <2>3
<1>4. ASSUME NEW w \in Workers, NothingFound(w) PROVE QueuesOK'
  BY <1>4 DEF NothingFound
<1>5. ASSUME NEW w \in Workers, NothingLeft(w) PROVE QueuesOK'
  BY <1>5 DEF NothingLeft, BreakLoop
<1>6. ASSUME NEW w \in Workers, SetFlag(w) PROVE QueuesOK'
  BY <1>6 DEF SetFlag
<1>7. ASSUME NEW w \in Workers, SetCount(w) PROVE QueuesOK'
  BY <1>7 DEF SetCount
<1>8. ASSUME NEW w \in Workers, Unidle(w) PROVE QueuesOK'
  BY <1>8 DEF Unidle, ClearFlag
<1>9. ASSUME NEW w \in Workers, UnidleDec(w) PROVE QueuesOK'
  BY <1>9 DEF UnidleDec, DecIdleCount, Settle
<1>10. ASSUME NEW w \in Workers, Absorb(w) PROVE QueuesOK'
  BY <1>10 DEF Absorb, Settle
<1>11. ASSUME NEW w \in Workers, Release(w) PROVE QueuesOK'
  BY <1>11 DEF Release
<1>12. ASSUME NEW w \in Workers, RunReturns(w) PROVE QueuesOK'
  BY <1>12 DEF RunReturns
<1>13. ASSUME NEW w \in Workers, Drop(w) PROVE QueuesOK'
  BY <1>13 DEF Drop
<1>14. ASSUME NEW w \in Workers, FinalScan(w) PROVE QueuesOK'
  <2>1. CASE injector # <<>>
    <3>1. Head(injector) \in Handles /\ Tail(injector) \in Seq(Handles)
      BY <2>1, SeqFacts
    <3>2. /\ cur' = [cur EXCEPT ![w] = Head(injector)] /\ injector' = Tail(injector)
          /\ \E l : Goto(w, l)
          /\ UNCHANGED <<local, fresh, done>>
      BY <1>14, <2>1 DEF FinalScan
    <3> QED
      BY <3>1, <3>2, TakeOK
  <2>2. CASE injector = <<>>
    BY <1>14, <2>2 DEF FinalScan
  <2> QED
    BY <2>1, <2>2
<1>15. ASSUME NEW w \in Workers, Park(w) PROVE QueuesOK'
  BY <1>15 DEF Park
<1>16. ASSUME NEW w \in Workers, Woken(w) PROVE QueuesOK'
  BY <1>16 DEF Woken, ClearFlag
<1>17. ASSUME NEW w \in Workers, WokenDec(w) PROVE QueuesOK'
  BY <1>17 DEF WokenDec, DecIdleCount
<1>18. ASSUME NEW w \in Workers, WokenCheck(w) PROVE QueuesOK'
  BY <1>18 DEF WokenCheck
<1>19. ASSUME NEW w \in Workers, StopUnidle(w) PROVE QueuesOK'
  BY <1>19 DEF StopUnidle, ClearFlag, BreakLoop
<1>20. ASSUME NEW w \in Workers, StopUnidleDec(w) PROVE QueuesOK'
  BY <1>20 DEF StopUnidleDec, DecIdleCount, BreakLoop
<1>21. ASSUME NEW w \in Workers, StopDrop(w) PROVE QueuesOK'
  BY <1>21 DEF StopDrop
<1>22. ASSUME NEW w \in Workers, Exit(w) PROVE QueuesOK'
  BY <1>22 DEF Exit
<1>23. ASSUME NEW t \in Threads, OneLoad(t) PROVE QueuesOK'
  BY <1>23 DEF OneLoad, Home
<1>24. ASSUME NEW t \in Threads, OneCas(t) PROVE QueuesOK'
  BY <1>24 DEF OneCas, Home
<1>25. ASSUME NEW t \in Threads, ForceLoad(t) PROVE QueuesOK'
  BY <1>25 DEF ForceLoad, Home
<1>26. ASSUME NEW t \in Threads, ForceAdd(t) PROVE QueuesOK'
  BY <1>26 DEF ForceAdd
<1>27. ASSUME NEW t \in Threads, WakeScan(t) PROVE QueuesOK'
  BY <1>27, SMTT(30) DEF WakeScan
<1>28. ASSUME NEW t \in Threads, WakeDec(t) PROVE QueuesOK'
  BY <1>28 DEF WakeDec
<1>29. ASSUME NEW t \in Threads, WakeUnpark(t) PROVE QueuesOK'
  BY <1>29 DEF WakeUnpark, Home
<1>30. ASSUME NEW t \in Threads, WakeFail(t) PROVE QueuesOK'
  BY <1>30 DEF WakeFail, Home
<1>31. ASSUME NEW t \in Threads, NEW h \in Handles, AddHandle(t, h) PROVE QueuesOK'
  <2>1. CASE t \in Workers
    <3>1. Append(local[t], h) \in Seq(Handles)
      BY <2>1, SeqFacts
    <3>2. local' = [local EXCEPT ![t] = Append(local[t], h)] /\ UNCHANGED <<injector, cur, done>>
      BY <1>31, <2>1 DEF AddHandle
    <3> QED
      BY <1>31, <2>1, <3>1, <3>2, PushOK DEF AddHandle
  <2>2. CASE t \notin Workers
    <3>1. Append(injector, h) \in Seq(Handles)
      BY SeqFacts
    <3> QED
      BY <1>31, <2>2, <3>1, PushOK DEF AddHandle, PushInjector
  <2> QED
    BY <2>1, <2>2
<1>32. ASSUME NEW t \in Threads, NEW h \in Handles, DeferHandle(t, h) PROVE QueuesOK'
  <2>1. Append(injector, h) \in Seq(Handles)
    BY SeqFacts
  <2> QED
    BY <1>32, <2>1, PushOK DEF DeferHandle, PushInjector
<1>33. ASSUME NEW t \in Threads, NEW h \in Handles, AddIOHandle(t, h) PROVE QueuesOK'
  <2>1. Append(injector, h) \in Seq(Handles)
    BY SeqFacts
  <2> QED
    BY <1>33, <2>1, PushOK DEF AddIOHandle, PushInjector
<1>34. ASSUME StopThreads PROVE QueuesOK'
  BY <1>34 DEF StopThreads
<1>35. ASSUME StopUnpark PROVE QueuesOK'
  BY <1>35 DEF StopUnpark
<1>36. ASSUME StopWait PROVE QueuesOK'
  BY <1>36 DEF StopWait
<1>37. ASSUME UNCHANGED vars PROVE QueuesOK'
  BY <1>37 DEF vars, queueVars, idleVars, stopVars
<1>38. QED
  BY <1>1, <1>2, <1>3, <1>4, <1>5, <1>6, <1>7, <1>8, <1>9, <1>10, <1>11, <1>12, <1>13,
     <1>14, <1>15, <1>16, <1>17, <1>18, <1>19, <1>20, <1>21, <1>22, <1>23, <1>24,
     <1>25, <1>26, <1>27, <1>28, <1>29, <1>30, <1>31, <1>32, <1>33, <1>34, <1>35,
     <1>36, <1>37 DEF Next, WorkerStep, UnparkStep, Push, Terminated

LEMMA TypeStep == TypeOK /\ [Next]_vars => TypeOK'
<1> SUFFICES ASSUME TypeOK, [Next]_vars, ControlOK', QueuesOK' PROVE TypeOK'
  BY ControlStep, QueuesStep
<1> USE ThreadFacts DEF TypeOK, idleVars, stopVars
<1>1. ASSUME NEW w \in Workers, FindLocal(w) PROVE TypeOK'
  BY <1>1 DEF FindLocal, Found, Settle
<1>2. ASSUME NEW w \in Workers, FindInjector(w) PROVE TypeOK'
  BY <1>2 DEF FindInjector, Found, Settle
<1>3. ASSUME NEW w \in Workers, FindSteal(w) PROVE TypeOK'
  BY <1>3 DEF FindSteal, Found, Settle
<1>4. ASSUME NEW w \in Workers, NothingFound(w) PROVE TypeOK'
  BY <1>4 DEF NothingFound
<1>5. ASSUME NEW w \in Workers, NothingLeft(w) PROVE TypeOK'
  BY <1>5 DEF NothingLeft, BreakLoop
<1>6. ASSUME NEW w \in Workers, SetFlag(w) PROVE TypeOK'
  BY <1>6 DEF SetFlag
<1>7. ASSUME NEW w \in Workers, SetCount(w) PROVE TypeOK'
  BY <1>7 DEF SetCount
<1>8. ASSUME NEW w \in Workers, Unidle(w) PROVE TypeOK'
  BY <1>8 DEF Unidle, ClearFlag
<1>9. ASSUME NEW w \in Workers, UnidleDec(w) PROVE TypeOK'
  BY <1>9 DEF UnidleDec, DecIdleCount, Settle
<1>10. ASSUME NEW w \in Workers, Absorb(w) PROVE TypeOK'
  BY <1>10 DEF Absorb, Settle
<1>11. ASSUME NEW w \in Workers, Release(w) PROVE TypeOK'
  BY <1>11 DEF Release
<1>12. ASSUME NEW w \in Workers, RunReturns(w) PROVE TypeOK'
  BY <1>12 DEF RunReturns
<1>13. ASSUME NEW w \in Workers, Drop(w) PROVE TypeOK'
  BY <1>13 DEF Drop
<1>14. ASSUME NEW w \in Workers, FinalScan(w) PROVE TypeOK'
  BY <1>14 DEF FinalScan
<1>15. ASSUME NEW w \in Workers, Park(w) PROVE TypeOK'
  BY <1>15 DEF Park
<1>16. ASSUME NEW w \in Workers, Woken(w) PROVE TypeOK'
  BY <1>16 DEF Woken, ClearFlag
<1>17. ASSUME NEW w \in Workers, WokenDec(w) PROVE TypeOK'
  BY <1>17 DEF WokenDec, DecIdleCount
<1>18. ASSUME NEW w \in Workers, WokenCheck(w) PROVE TypeOK'
  BY <1>18 DEF WokenCheck
<1>19. ASSUME NEW w \in Workers, StopUnidle(w) PROVE TypeOK'
  BY <1>19 DEF StopUnidle, ClearFlag, BreakLoop
<1>20. ASSUME NEW w \in Workers, StopUnidleDec(w) PROVE TypeOK'
  BY <1>20 DEF StopUnidleDec, DecIdleCount, BreakLoop
<1>21. ASSUME NEW w \in Workers, StopDrop(w) PROVE TypeOK'
  BY <1>21 DEF StopDrop
<1>22. ASSUME NEW w \in Workers, Exit(w) PROVE TypeOK'
  BY <1>22 DEF Exit
<1>23. ASSUME NEW t \in Threads, OneLoad(t) PROVE TypeOK'
  BY <1>23 DEF OneLoad, Home
<1>24. ASSUME NEW t \in Threads, OneCas(t) PROVE TypeOK'
  BY <1>24 DEF OneCas, Home
<1>25. ASSUME NEW t \in Threads, ForceLoad(t) PROVE TypeOK'
  BY <1>25 DEF ForceLoad, Home
<1>26. ASSUME NEW t \in Threads, ForceAdd(t) PROVE TypeOK'
  BY <1>26 DEF ForceAdd
<1>27. ASSUME NEW t \in Threads, WakeScan(t) PROVE TypeOK'
  BY <1>27 DEF WakeScan, ControlOK
<1>28. ASSUME NEW t \in Threads, WakeDec(t) PROVE TypeOK'
  BY <1>28 DEF WakeDec
<1>29. ASSUME NEW t \in Threads, WakeUnpark(t) PROVE TypeOK'
  BY <1>29 DEF WakeUnpark, Home
<1>30. ASSUME NEW t \in Threads, WakeFail(t) PROVE TypeOK'
  BY <1>30 DEF WakeFail, Home
<1>31. ASSUME NEW t \in Threads, NEW h \in Handles, AddHandle(t, h) PROVE TypeOK'
  BY <1>31 DEF AddHandle, Home, PushInjector
<1>32. ASSUME NEW t \in Threads, NEW h \in Handles, DeferHandle(t, h) PROVE TypeOK'
  BY <1>32 DEF DeferHandle, Home, PushInjector
<1>33. ASSUME NEW t \in Threads, NEW h \in Handles, AddIOHandle(t, h) PROVE TypeOK'
  BY <1>33 DEF AddIOHandle, Home, PushInjector
<1>34. ASSUME StopThreads PROVE TypeOK'
  BY <1>34 DEF StopThreads
<1>35. ASSUME StopUnpark PROVE TypeOK'
  BY <1>35 DEF StopUnpark
<1>36. ASSUME StopWait PROVE TypeOK'
  BY <1>36 DEF StopWait
<1>37. ASSUME UNCHANGED vars PROVE TypeOK'
  BY <1>37 DEF vars, queueVars, idleVars, stopVars
<1>38. QED
  BY <1>1, <1>2, <1>3, <1>4, <1>5, <1>6, <1>7, <1>8, <1>9, <1>10, <1>11, <1>12, <1>13,
     <1>14, <1>15, <1>16, <1>17, <1>18, <1>19, <1>20, <1>21, <1>22, <1>23, <1>24,
     <1>25, <1>26, <1>27, <1>28, <1>29, <1>30, <1>31, <1>32, <1>33, <1>34, <1>35,
     <1>36, <1>37 DEF Next, WorkerStep, UnparkStep, Push, Terminated

LEMMA TypeInit == Init => TypeOK
<1> SUFFICES ASSUME Init PROVE TypeOK
  OBVIOUS
<1>1. QueuesOK
  <2>1. injector \in Seq(Handles) /\ fresh \subseteq Handles
    <3>1. CASE injector = <<>> /\ fresh = Handles
      BY <3>1
    <3>2. CASE \E h \in Handles : injector = <<h>> /\ fresh = Handles \ {h}
      BY <3>2
    <3> QED
      BY <3>1, <3>2 DEF Init
  <2>2. \A w \in Workers : pc[w] \notin InHandPCs
    BY ThreadFacts DEF Init, InHandPCs, UnparkPCs
  <2>3. /\ local = [w \in Workers |-> <<>>]
        /\ cur = [w \in Workers |-> NoHandle] /\ done = {}
    BY DEF Init
  <2>4. local \in [Workers -> Seq(Handles)]
    BY <2>3
  <2> QED
    BY <2>1, <2>2, <2>3, <2>4 DEF QueuesOK
<1>2. ControlOK
  <2>1. /\ \A w \in Workers : pc[w] = "find_local"
        /\ \A e \in Ext : pc[e] = "outside"
        /\ pc = [t \in Threads |-> IF t \in Workers THEN "find_local" ELSE "outside"]
    BY ThreadFacts DEF Init
  <2> QED
    BY <2>1, ThreadFacts DEF Init, ControlOK, WorkerPCs, ExtPCs
<1>3. idleCount \in Int /\ speculation \in Int /\ pending \in Int
  BY NAssumption DEF Init
<1> QED
  BY <1>1, <1>2, <1>3 DEF Init, TypeOK

\* Every variable keeps its type and every thread stays in the code it runs:
\* workers in work_loop, the others in the calls that push or in stop_threads.
THEOREM TypeCorrect == Spec => []TypeOK
  BY TypeInit, TypeStep, PTL DEF Spec
-----------------------------------------------------------------------------
\* The control state.

LEMMA ShapeStep == TypeOK /\ Shape /\ [Next]_vars => Shape'
<1> SUFFICES ASSUME TypeOK, Shape, [Next]_vars PROVE Shape'
  OBVIOUS
<1> USE ThreadFacts DEF TypeOK, ControlOK, Shape, Listed, UnparkPCs, At, Goto,
        idleVars, stopVars
<1>1. ASSUME NEW w \in Workers, FindLocal(w) PROVE Shape'
  BY <1>1 DEF FindLocal, Found, Settle
<1>2. ASSUME NEW w \in Workers, FindInjector(w) PROVE Shape'
  <2>1. /\ \E l \in {Found(w), "find_steal"} : pc' = [pc EXCEPT ![w] = l]
        /\ UNCHANGED <<scan, rescan, speculating, idleFlag, workStopping>>
    BY <1>2 DEF FindInjector
  <2>2. Found(w) = "unidle" \/ (Found(w) = Settle(w) /\ ~rescan[w])
    BY DEF Found
  <2>3. At(w, "find_injector") /\ (Settle(w) = "run" \/ Settle(w) = "release")
    BY <1>2 DEF FindInjector, Settle
  <2> QED
    BY <2>1, <2>2, <2>3 DEF Found, Settle
<1>3. ASSUME NEW w \in Workers, FindSteal(w) PROVE Shape'
  <2>1. CASE scan[w] # w /\ local[scan[w]] # <<>>
    BY <1>3, <2>1, SMTT(30) DEF FindSteal, Found, Settle
  <2>2. CASE ~(scan[w] # w /\ local[scan[w]] # <<>>)
    BY <1>3, <2>2 DEF FindSteal, Found, Settle
  <2> QED
    BY <2>1, <2>2
<1>4. ASSUME NEW w \in Workers, NothingFound(w) PROVE Shape'
  BY <1>4 DEF NothingFound
<1>5. ASSUME NEW w \in Workers, NothingLeft(w) PROVE Shape'
  BY <1>5 DEF NothingLeft, BreakLoop
<1>6. ASSUME NEW w \in Workers, SetFlag(w) PROVE Shape'
  BY <1>6 DEF SetFlag
<1>7. ASSUME NEW w \in Workers, SetCount(w) PROVE Shape'
  BY <1>7 DEF SetCount
<1>8. ASSUME NEW w \in Workers, Unidle(w) PROVE Shape'
  BY <1>8 DEF Unidle, ClearFlag
<1>9. ASSUME NEW w \in Workers, UnidleDec(w) PROVE Shape'
  BY <1>9 DEF UnidleDec, DecIdleCount, Settle
<1>10. ASSUME NEW w \in Workers, Absorb(w) PROVE Shape'
  BY <1>10 DEF Absorb, Settle
<1>11. ASSUME NEW w \in Workers, Release(w) PROVE Shape'
  BY <1>11 DEF Release
<1>12. ASSUME NEW w \in Workers, RunReturns(w) PROVE Shape'
  BY <1>12 DEF RunReturns
<1>13. ASSUME NEW w \in Workers, Drop(w) PROVE Shape'
  BY <1>13 DEF Drop
<1>14. ASSUME NEW w \in Workers, FinalScan(w) PROVE Shape'
  BY <1>14 DEF FinalScan
<1>15. ASSUME NEW w \in Workers, Park(w) PROVE Shape'
  BY <1>15 DEF Park
<1>16. ASSUME NEW w \in Workers, Woken(w) PROVE Shape'
  BY <1>16 DEF Woken, ClearFlag
<1>17. ASSUME NEW w \in Workers, WokenDec(w) PROVE Shape'
  BY <1>17 DEF WokenDec, DecIdleCount
<1>18. ASSUME NEW w \in Workers, WokenCheck(w) PROVE Shape'
  BY <1>18 DEF WokenCheck
<1>19. ASSUME NEW w \in Workers, StopUnidle(w) PROVE Shape'
  BY <1>19 DEF StopUnidle, ClearFlag, BreakLoop
<1>20. ASSUME NEW w \in Workers, StopUnidleDec(w) PROVE Shape'
  BY <1>20 DEF StopUnidleDec, DecIdleCount, BreakLoop
<1>21. ASSUME NEW w \in Workers, StopDrop(w) PROVE Shape'
  BY <1>21 DEF StopDrop
<1>22. ASSUME NEW w \in Workers, Exit(w) PROVE Shape'
  BY <1>22 DEF Exit
<1>23. ASSUME NEW t \in Threads, OneLoad(t) PROVE Shape'
  BY <1>23 DEF OneLoad, Home
<1>24. ASSUME NEW t \in Threads, OneCas(t) PROVE Shape'
  <2>1. CASE speculation = 0
    BY <1>24, <2>1 DEF OneCas, Home
  <2>2. CASE speculation # 0
    BY <1>24, <2>2 DEF OneCas, Home
  <2> QED
    BY <2>1, <2>2
<1>25. ASSUME NEW t \in Threads, ForceLoad(t) PROVE Shape'
  BY <1>25 DEF ForceLoad, Home
<1>26. ASSUME NEW t \in Threads, ForceAdd(t) PROVE Shape'
  BY <1>26 DEF ForceAdd
<1>27. ASSUME NEW t \in Threads, WakeScan(t) PROVE Shape'
  BY <1>27, SMTT(30) DEF WakeScan
<1>28. ASSUME NEW t \in Threads, WakeDec(t) PROVE Shape'
  BY <1>28 DEF WakeDec
<1>29. ASSUME NEW t \in Threads, WakeUnpark(t) PROVE Shape'
  BY <1>29 DEF WakeUnpark, Home
<1>30. ASSUME NEW t \in Threads, WakeFail(t) PROVE Shape'
  BY <1>30 DEF WakeFail, Home
<1>31. ASSUME NEW t \in Threads, NEW h \in Handles, AddHandle(t, h) PROVE Shape'
  BY <1>31 DEF AddHandle, Home, PushInjector
<1>32. ASSUME NEW t \in Threads, NEW h \in Handles, DeferHandle(t, h) PROVE Shape'
  BY <1>32 DEF DeferHandle, Home, PushInjector
<1>33. ASSUME NEW t \in Threads, NEW h \in Handles, AddIOHandle(t, h) PROVE Shape'
  BY <1>33 DEF AddIOHandle, Home, PushInjector
<1>34. ASSUME StopThreads PROVE Shape'
  BY <1>34 DEF StopThreads
<1>35. ASSUME StopUnpark PROVE Shape'
  <2>1. CASE scan[Reactor] = N
    BY <1>35, <2>1 DEF StopUnpark
  <2>2. CASE scan[Reactor] # N
    BY <1>35, <2>2 DEF StopUnpark
  <2> QED
    BY <2>1, <2>2
<1>36. ASSUME StopWait PROVE Shape'
  BY <1>36 DEF StopWait
<1>37. ASSUME UNCHANGED vars PROVE Shape'
  BY <1>37 DEF vars, queueVars, idleVars, stopVars
<1>38. QED
  BY <1>1, <1>2, <1>3, <1>4, <1>5, <1>6, <1>7, <1>8, <1>9, <1>10, <1>11, <1>12, <1>13,
     <1>14, <1>15, <1>16, <1>17, <1>18, <1>19, <1>20, <1>21, <1>22, <1>23, <1>24,
     <1>25, <1>26, <1>27, <1>28, <1>29, <1>30, <1>31, <1>32, <1>33, <1>34, <1>35,
     <1>36, <1>37 DEF Next, WorkerStep, UnparkStep, Push, Terminated

LEMMA LocalEmptyStep == TypeOK /\ LocalEmpty /\ [Next]_vars => LocalEmpty'
<1> SUFFICES ASSUME TypeOK, LocalEmpty, [Next]_vars PROVE LocalEmpty'
  OBVIOUS
<1> USE ThreadFacts DEF TypeOK, ControlOK, QueuesOK, LocalEmpty, At, Goto, queueVars
<1>1. ASSUME NEW w \in Workers, FindLocal(w) PROVE LocalEmpty'
  <2>1. CASE local[w] # <<>>
    BY <1>1, <2>1, SMTT(30) DEF FindLocal, Found, Settle
  <2>2. CASE local[w] = <<>>
    BY <1>1, <2>2 DEF FindLocal
  <2> QED
    BY <2>1, <2>2
<1>2. ASSUME NEW w \in Workers, FindInjector(w) PROVE LocalEmpty'
  BY <1>2 DEF FindInjector, Found, Settle
<1>3. ASSUME NEW w \in Workers, FindSteal(w) PROVE LocalEmpty'
  BY <1>3, ZenonT(40) DEF FindSteal, Found, Settle
<1>4. ASSUME NEW w \in Workers, NothingFound(w) PROVE LocalEmpty'
  BY <1>4 DEF NothingFound
<1>5. ASSUME NEW w \in Workers, NothingLeft(w) PROVE LocalEmpty'
  BY <1>5 DEF NothingLeft, BreakLoop
<1>6. ASSUME NEW w \in Workers, SetFlag(w) PROVE LocalEmpty'
  BY <1>6 DEF SetFlag
<1>7. ASSUME NEW w \in Workers, SetCount(w) PROVE LocalEmpty'
  BY <1>7 DEF SetCount
<1>8. ASSUME NEW w \in Workers, Unidle(w) PROVE LocalEmpty'
  BY <1>8 DEF Unidle, ClearFlag
<1>9. ASSUME NEW w \in Workers, UnidleDec(w) PROVE LocalEmpty'
  BY <1>9 DEF UnidleDec, DecIdleCount, Settle
<1>10. ASSUME NEW w \in Workers, Absorb(w) PROVE LocalEmpty'
  BY <1>10 DEF Absorb, Settle
<1>11. ASSUME NEW w \in Workers, Release(w) PROVE LocalEmpty'
  BY <1>11 DEF Release
<1>12. ASSUME NEW w \in Workers, RunReturns(w) PROVE LocalEmpty'
  BY <1>12 DEF RunReturns
<1>13. ASSUME NEW w \in Workers, Drop(w) PROVE LocalEmpty'
  BY <1>13 DEF Drop
<1>14. ASSUME NEW w \in Workers, FinalScan(w) PROVE LocalEmpty'
  BY <1>14 DEF FinalScan
<1>15. ASSUME NEW w \in Workers, Park(w) PROVE LocalEmpty'
  BY <1>15 DEF Park
<1>16. ASSUME NEW w \in Workers, Woken(w) PROVE LocalEmpty'
  BY <1>16 DEF Woken, ClearFlag
<1>17. ASSUME NEW w \in Workers, WokenDec(w) PROVE LocalEmpty'
  BY <1>17 DEF WokenDec, DecIdleCount
<1>18. ASSUME NEW w \in Workers, WokenCheck(w) PROVE LocalEmpty'
  BY <1>18 DEF WokenCheck
<1>19. ASSUME NEW w \in Workers, StopUnidle(w) PROVE LocalEmpty'
  BY <1>19 DEF StopUnidle, ClearFlag, BreakLoop
<1>20. ASSUME NEW w \in Workers, StopUnidleDec(w) PROVE LocalEmpty'
  BY <1>20 DEF StopUnidleDec, DecIdleCount, BreakLoop
<1>21. ASSUME NEW w \in Workers, StopDrop(w) PROVE LocalEmpty'
  BY <1>21 DEF StopDrop
<1>22. ASSUME NEW w \in Workers, Exit(w) PROVE LocalEmpty'
  BY <1>22 DEF Exit
<1>23. ASSUME NEW t \in Threads, OneLoad(t) PROVE LocalEmpty'
  BY <1>23 DEF OneLoad, Home
<1>24. ASSUME NEW t \in Threads, OneCas(t) PROVE LocalEmpty'
  BY <1>24, SMTT(30) DEF OneCas, Home
<1>25. ASSUME NEW t \in Threads, ForceLoad(t) PROVE LocalEmpty'
  BY <1>25 DEF ForceLoad, Home
<1>26. ASSUME NEW t \in Threads, ForceAdd(t) PROVE LocalEmpty'
  BY <1>26 DEF ForceAdd
<1>27. ASSUME NEW t \in Threads, WakeScan(t) PROVE LocalEmpty'
  BY <1>27, SMTT(30) DEF WakeScan
<1>28. ASSUME NEW t \in Threads, WakeDec(t) PROVE LocalEmpty'
  BY <1>28 DEF WakeDec
<1>29. ASSUME NEW t \in Threads, WakeUnpark(t) PROVE LocalEmpty'
  BY <1>29 DEF WakeUnpark, Home
<1>30. ASSUME NEW t \in Threads, WakeFail(t) PROVE LocalEmpty'
  BY <1>30 DEF WakeFail, Home
<1>31. ASSUME NEW t \in Threads, NEW h \in Handles, AddHandle(t, h) PROVE LocalEmpty'
  BY <1>31 DEF AddHandle, Home, PushInjector
<1>32. ASSUME NEW t \in Threads, NEW h \in Handles, DeferHandle(t, h) PROVE LocalEmpty'
  BY <1>32 DEF DeferHandle, Home, PushInjector
<1>33. ASSUME NEW t \in Threads, NEW h \in Handles, AddIOHandle(t, h) PROVE LocalEmpty'
  BY <1>33 DEF AddIOHandle, Home, PushInjector
<1>34. ASSUME StopThreads PROVE LocalEmpty'
  BY <1>34 DEF StopThreads
<1>35. ASSUME StopUnpark PROVE LocalEmpty'
  BY <1>35 DEF StopUnpark
<1>36. ASSUME StopWait PROVE LocalEmpty'
  BY <1>36 DEF StopWait
<1>37. ASSUME UNCHANGED vars PROVE LocalEmpty'
  BY <1>37 DEF vars, queueVars, idleVars, stopVars
<1>38. QED
  BY <1>1, <1>2, <1>3, <1>4, <1>5, <1>6, <1>7, <1>8, <1>9, <1>10, <1>11, <1>12, <1>13,
     <1>14, <1>15, <1>16, <1>17, <1>18, <1>19, <1>20, <1>21, <1>22, <1>23, <1>24,
     <1>25, <1>26, <1>27, <1>28, <1>29, <1>30, <1>31, <1>32, <1>33, <1>34, <1>35,
     <1>36, <1>37 DEF Next, WorkerStep, UnparkStep, Push, Terminated

LEMMA ClaimedStep == TypeOK /\ Shape /\ ClaimedIsWoken /\ [Next]_vars => ClaimedIsWoken'
<1> SUFFICES ASSUME TypeOK, Shape, ClaimedIsWoken, [Next]_vars PROVE ClaimedIsWoken'
  OBVIOUS
<1> USE ThreadFacts DEF TypeOK, ControlOK, ClaimedIsWoken, Listed, WakingUp, At, Goto, idleVars
<1>1. ASSUME NEW w \in Workers, FindLocal(w) PROVE ClaimedIsWoken'
  BY <1>1 DEF FindLocal, Found, Settle
<1>2. ASSUME NEW w \in Workers, FindInjector(w) PROVE ClaimedIsWoken'
  BY <1>2 DEF FindInjector, Found, Settle
<1>3. ASSUME NEW w \in Workers, FindSteal(w) PROVE ClaimedIsWoken'
  BY <1>3, SMTT(30) DEF FindSteal, Found, Settle
<1>4. ASSUME NEW w \in Workers, NothingFound(w) PROVE ClaimedIsWoken'
  BY <1>4 DEF NothingFound
<1>5. ASSUME NEW w \in Workers, NothingLeft(w) PROVE ClaimedIsWoken'
  BY <1>5 DEF NothingLeft, BreakLoop
<1>6. ASSUME NEW w \in Workers, SetFlag(w) PROVE ClaimedIsWoken'
  BY <1>6 DEF SetFlag
<1>7. ASSUME NEW w \in Workers, SetCount(w) PROVE ClaimedIsWoken'
  BY <1>7 DEF SetCount
<1>8. ASSUME NEW w \in Workers, Unidle(w) PROVE ClaimedIsWoken'
  BY <1>8 DEF Unidle, ClearFlag
<1>9. ASSUME NEW w \in Workers, UnidleDec(w) PROVE ClaimedIsWoken'
  BY <1>9 DEF UnidleDec, DecIdleCount, Settle
<1>10. ASSUME NEW w \in Workers, Absorb(w) PROVE ClaimedIsWoken'
  BY <1>10 DEF Absorb, Settle
<1>11. ASSUME NEW w \in Workers, Release(w) PROVE ClaimedIsWoken'
  BY <1>11 DEF Release
<1>12. ASSUME NEW w \in Workers, RunReturns(w) PROVE ClaimedIsWoken'
  BY <1>12 DEF RunReturns
<1>13. ASSUME NEW w \in Workers, Drop(w) PROVE ClaimedIsWoken'
  BY <1>13 DEF Drop
<1>14. ASSUME NEW w \in Workers, FinalScan(w) PROVE ClaimedIsWoken'
  BY <1>14 DEF FinalScan
<1>15. ASSUME NEW w \in Workers, Park(w) PROVE ClaimedIsWoken'
  BY <1>15 DEF Park
<1>16. ASSUME NEW w \in Workers, Woken(w) PROVE ClaimedIsWoken'
  BY <1>16 DEF Woken, ClearFlag
<1>17. ASSUME NEW w \in Workers, WokenDec(w) PROVE ClaimedIsWoken'
  BY <1>17 DEF WokenDec, DecIdleCount
<1>18. ASSUME NEW w \in Workers, WokenCheck(w) PROVE ClaimedIsWoken'
  BY <1>18 DEF WokenCheck
<1>19. ASSUME NEW w \in Workers, StopUnidle(w) PROVE ClaimedIsWoken'
  BY <1>19 DEF StopUnidle, ClearFlag, BreakLoop
<1>20. ASSUME NEW w \in Workers, StopUnidleDec(w) PROVE ClaimedIsWoken'
  BY <1>20 DEF StopUnidleDec, DecIdleCount, BreakLoop
<1>21. ASSUME NEW w \in Workers, StopDrop(w) PROVE ClaimedIsWoken'
  BY <1>21 DEF StopDrop
<1>22. ASSUME NEW w \in Workers, Exit(w) PROVE ClaimedIsWoken'
  BY <1>22 DEF Exit
<1>23. ASSUME NEW t \in Threads, OneLoad(t) PROVE ClaimedIsWoken'
  BY <1>23 DEF OneLoad, Home
<1>24. ASSUME NEW t \in Threads, OneCas(t) PROVE ClaimedIsWoken'
  BY <1>24 DEF OneCas, Home
<1>25. ASSUME NEW t \in Threads, ForceLoad(t) PROVE ClaimedIsWoken'
  BY <1>25 DEF ForceLoad, Home
<1>26. ASSUME NEW t \in Threads, ForceAdd(t) PROVE ClaimedIsWoken'
  BY <1>26 DEF ForceAdd
<1>27. ASSUME NEW t \in Threads, WakeScan(t) PROVE ClaimedIsWoken'
  BY <1>27 DEF WakeScan
<1>28. ASSUME NEW t \in Threads, WakeDec(t) PROVE ClaimedIsWoken'
  BY <1>28 DEF WakeDec
<1>29. ASSUME NEW t \in Threads, WakeUnpark(t) PROVE ClaimedIsWoken'
  BY <1>29 DEF WakeUnpark, Home
<1>30. ASSUME NEW t \in Threads, WakeFail(t) PROVE ClaimedIsWoken'
  BY <1>30 DEF WakeFail, Home
<1>31. ASSUME NEW t \in Threads, NEW h \in Handles, AddHandle(t, h) PROVE ClaimedIsWoken'
  BY <1>31 DEF AddHandle, Home, PushInjector
<1>32. ASSUME NEW t \in Threads, NEW h \in Handles, DeferHandle(t, h) PROVE ClaimedIsWoken'
  BY <1>32 DEF DeferHandle, Home, PushInjector
<1>33. ASSUME NEW t \in Threads, NEW h \in Handles, AddIOHandle(t, h) PROVE ClaimedIsWoken'
  BY <1>33 DEF AddIOHandle, Home, PushInjector
<1>34. ASSUME StopThreads PROVE ClaimedIsWoken'
  BY <1>34 DEF StopThreads
<1>35. ASSUME StopUnpark PROVE ClaimedIsWoken'
  BY <1>35 DEF StopUnpark
<1>36. ASSUME StopWait PROVE ClaimedIsWoken'
  BY <1>36 DEF StopWait
<1>37. ASSUME UNCHANGED vars PROVE ClaimedIsWoken'
  BY <1>37 DEF vars, queueVars, idleVars, stopVars
<1>38. QED
  BY <1>1, <1>2, <1>3, <1>4, <1>5, <1>6, <1>7, <1>8, <1>9, <1>10, <1>11, <1>12, <1>13,
     <1>14, <1>15, <1>16, <1>17, <1>18, <1>19, <1>20, <1>21, <1>22, <1>23, <1>24,
     <1>25, <1>26, <1>27, <1>28, <1>29, <1>30, <1>31, <1>32, <1>33, <1>34, <1>35,
     <1>36, <1>37 DEF Next, WorkerStep, UnparkStep, Push, Terminated
-----------------------------------------------------------------------------
\* Counting.

LEMMA CountUp ==
  ASSUME NEW S, IsFiniteSet(S), NEW x, x \notin S
  PROVE  Cardinality(S \cup {x}) = Cardinality(S) + 1
  BY FS_AddElement

LEMMA CountDown ==
  ASSUME NEW S, IsFiniteSet(S), NEW x, x \in S
  PROVE  Cardinality(S \ {x}) = Cardinality(S) - 1
  BY FS_RemoveElement

\* The sets that are counted are finite.
LEMMA FiniteThreads ==
  ASSUME NEW S, S \subseteq Threads
  PROVE  IsFiniteSet(S) /\ Cardinality(S) \in Nat
<1>1. IsFiniteSet(Workers)
  BY FS_Interval, NAssumption DEF Workers
<1>2. IsFiniteSet(Threads)
  BY <1>1, FS_Union, ThreadsAssumption DEF Threads
<1> QED
  BY <1>2, FS_Subset, FS_CardinalityType

LEMMA IdleCountingStep ==
  TypeOK /\ Shape /\ IdleCounting /\ [Next]_vars => IdleCounting'
<1> SUFFICES ASSUME TypeOK, Shape, IdleCounting, [Next]_vars PROVE IdleCounting'
  OBVIOUS
<1>0. /\ IsFiniteSet(Flagged) /\ IsFiniteSet(Adding) /\ IsFiniteSet(Subtracting)
      /\ Cardinality(Flagged) \in Nat /\ Cardinality(Adding) \in Nat
      /\ Cardinality(Subtracting) \in Nat
  BY FiniteThreads, ThreadFacts DEF Flagged, Adding, Subtracting
<1> DEFINE Same == /\ Flagged' = Flagged /\ Adding' = Adding
                   /\ Subtracting' = Subtracting /\ idleCount' = idleCount
<1>a. Same => IdleCounting'
  BY DEF IdleCounting
<1> USE ThreadFacts DEF TypeOK, ControlOK, At, Goto, idleVars
<1>1. ASSUME NEW w \in Workers, FindLocal(w) PROVE Same
  BY <1>1 DEF FindLocal, Found, Settle, Flagged, Adding, Subtracting
<1>2. ASSUME NEW w \in Workers, FindInjector(w) PROVE Same
  BY <1>2 DEF FindInjector, Found, Settle, Flagged, Adding, Subtracting
<1>3. ASSUME NEW w \in Workers, FindSteal(w) PROVE Same
  BY <1>3 DEF FindSteal, Found, Settle, Flagged, Adding, Subtracting
<1>4. ASSUME NEW w \in Workers, NothingFound(w) PROVE Same
  BY <1>4 DEF NothingFound, Flagged, Adding, Subtracting
<1>5. ASSUME NEW w \in Workers, NothingLeft(w) PROVE Same
  BY <1>5 DEF NothingLeft, BreakLoop, Flagged, Adding, Subtracting
<1>6. ASSUME NEW w \in Workers, SetFlag(w) PROVE IdleCounting'
  <2>1. w \notin Flagged /\ Flagged' = Flagged \cup {w}
    BY <1>6 DEF SetFlag, Shape, Listed, Flagged
  <2>2. w \notin Adding /\ Adding' = Adding \cup {w}
    BY <1>6 DEF SetFlag, Adding
  <2>3. Subtracting' = Subtracting /\ idleCount' = idleCount
    BY <1>6 DEF SetFlag, Subtracting
  <2> QED
    BY <1>0, <2>1, <2>2, <2>3, CountUp DEF IdleCounting
<1>7. ASSUME NEW w \in Workers, SetCount(w) PROVE IdleCounting'
  <2>1. Adding' = Adding \ {w} /\ w \in Adding
    BY <1>7 DEF SetCount, Adding
  <2>2. Flagged' = Flagged /\ Subtracting' = Subtracting /\ idleCount' = idleCount + 1
    BY <1>7 DEF SetCount, Flagged, Subtracting
  <2> QED
    BY <1>0, <2>1, <2>2, CountDown DEF IdleCounting
<1>8. ASSUME NEW w \in Workers, Unidle(w) PROVE IdleCounting'
  <2>1. Adding' = Adding /\ idleCount' = idleCount
    BY <1>8 DEF Unidle, ClearFlag, Adding
  <2>2. CASE idleFlag[w]
    <3>1. w \in Flagged /\ Flagged' = Flagged \ {w}
      BY <1>8, <2>2 DEF Unidle, ClearFlag, Flagged
    <3>2. w \notin Subtracting /\ Subtracting' = Subtracting \cup {w}
      BY <1>8, <2>2 DEF Unidle, ClearFlag, Subtracting
    <3>3. Cardinality(Flagged') = Cardinality(Flagged) - 1
      BY <1>0, <3>1, CountDown
    <3>4. Cardinality(Subtracting') = Cardinality(Subtracting) + 1
      BY <1>0, <3>2, CountUp
    <3> QED
      BY <1>0, <2>1, <3>3, <3>4 DEF IdleCounting
  <2>3. CASE ~idleFlag[w]
    <3>1. Flagged' = Flagged
      BY <1>8, <2>3 DEF Unidle, ClearFlag, Flagged
    <3>2. Subtracting' = Subtracting
      BY <1>8, <2>3 DEF Unidle, ClearFlag, Subtracting
    <3> QED
      BY <2>1, <3>1, <3>2 DEF IdleCounting
  <2> QED
    BY <2>2, <2>3
<1>9. ASSUME NEW w \in Workers, UnidleDec(w) PROVE IdleCounting'
  <2>1. w \in Subtracting /\ Subtracting' = Subtracting \ {w}
    BY <1>9 DEF UnidleDec, DecIdleCount, Settle, Subtracting
  <2>2. Flagged' = Flagged /\ Adding' = Adding /\ idleCount' = idleCount - 1
    BY <1>9 DEF UnidleDec, DecIdleCount, Settle, Flagged, Adding
  <2> QED
    BY <1>0, <2>1, <2>2, CountDown DEF IdleCounting
<1>10. ASSUME NEW w \in Workers, Absorb(w) PROVE Same
  BY <1>10 DEF Absorb, Settle, Flagged, Adding, Subtracting
<1>11. ASSUME NEW w \in Workers, Release(w) PROVE Same
  BY <1>11 DEF Release, Flagged, Adding, Subtracting
<1>12. ASSUME NEW w \in Workers, RunReturns(w) PROVE Same
  BY <1>12 DEF RunReturns, Flagged, Adding, Subtracting
<1>13. ASSUME NEW w \in Workers, Drop(w) PROVE Same
  BY <1>13 DEF Drop, Flagged, Adding, Subtracting
<1>14. ASSUME NEW w \in Workers, FinalScan(w) PROVE Same
  BY <1>14 DEF FinalScan, Flagged, Adding, Subtracting
<1>15. ASSUME NEW w \in Workers, Park(w) PROVE Same
  BY <1>15 DEF Park, Flagged, Adding, Subtracting
<1>16. ASSUME NEW w \in Workers, Woken(w) PROVE IdleCounting'
  <2>1. Adding' = Adding /\ idleCount' = idleCount
    BY <1>16 DEF Woken, ClearFlag, Adding
  <2>2. CASE idleFlag[w]
    <3>1. w \in Flagged /\ Flagged' = Flagged \ {w}
      BY <1>16, <2>2 DEF Woken, ClearFlag, Flagged
    <3>2. w \notin Subtracting /\ Subtracting' = Subtracting \cup {w}
      BY <1>16, <2>2 DEF Woken, ClearFlag, Subtracting
    <3>3. Cardinality(Flagged') = Cardinality(Flagged) - 1
      BY <1>0, <3>1, CountDown
    <3>4. Cardinality(Subtracting') = Cardinality(Subtracting) + 1
      BY <1>0, <3>2, CountUp
    <3> QED
      BY <1>0, <2>1, <3>3, <3>4 DEF IdleCounting
  <2>3. CASE ~idleFlag[w]
    <3>1. Flagged' = Flagged
      BY <1>16, <2>3 DEF Woken, ClearFlag, Flagged
    <3>2. Subtracting' = Subtracting
      BY <1>16, <2>3 DEF Woken, ClearFlag, Subtracting
    <3> QED
      BY <2>1, <3>1, <3>2 DEF IdleCounting
  <2> QED
    BY <2>2, <2>3
<1>17. ASSUME NEW w \in Workers, WokenDec(w) PROVE IdleCounting'
  <2>1. w \in Subtracting /\ Subtracting' = Subtracting \ {w}
    BY <1>17 DEF WokenDec, DecIdleCount, Subtracting
  <2>2. Flagged' = Flagged /\ Adding' = Adding /\ idleCount' = idleCount - 1
    BY <1>17 DEF WokenDec, DecIdleCount, Flagged, Adding
  <2> QED
    BY <1>0, <2>1, <2>2, CountDown DEF IdleCounting
<1>18. ASSUME NEW w \in Workers, WokenCheck(w) PROVE Same
  BY <1>18 DEF WokenCheck, Flagged, Adding, Subtracting
<1>19. ASSUME NEW w \in Workers, StopUnidle(w) PROVE IdleCounting'
  <2>1. Adding' = Adding /\ idleCount' = idleCount
    BY <1>19 DEF StopUnidle, ClearFlag, BreakLoop, Adding
  <2>2. CASE idleFlag[w]
    <3>1. w \in Flagged /\ Flagged' = Flagged \ {w}
      BY <1>19, <2>2 DEF StopUnidle, ClearFlag, Flagged
    <3>2. w \notin Subtracting /\ Subtracting' = Subtracting \cup {w}
      BY <1>19, <2>2 DEF StopUnidle, ClearFlag, Subtracting
    <3>3. Cardinality(Flagged') = Cardinality(Flagged) - 1
      BY <1>0, <3>1, CountDown
    <3>4. Cardinality(Subtracting') = Cardinality(Subtracting) + 1
      BY <1>0, <3>2, CountUp
    <3> QED
      BY <1>0, <2>1, <3>3, <3>4 DEF IdleCounting
  <2>3. CASE ~idleFlag[w]
    <3>1. Flagged' = Flagged
      BY <1>19, <2>3 DEF StopUnidle, ClearFlag, Flagged
    <3>2. Subtracting' = Subtracting
      BY <1>19, <2>3 DEF StopUnidle, ClearFlag, BreakLoop, Subtracting
    <3> QED
      BY <2>1, <3>1, <3>2 DEF IdleCounting
  <2> QED
    BY <2>2, <2>3
<1>20. ASSUME NEW w \in Workers, StopUnidleDec(w) PROVE IdleCounting'
  <2>1. w \in Subtracting /\ Subtracting' = Subtracting \ {w}
    BY <1>20 DEF StopUnidleDec, DecIdleCount, BreakLoop, Subtracting
  <2>2. Flagged' = Flagged /\ Adding' = Adding /\ idleCount' = idleCount - 1
    BY <1>20 DEF StopUnidleDec, DecIdleCount, BreakLoop, Flagged, Adding
  <2> QED
    BY <1>0, <2>1, <2>2, CountDown DEF IdleCounting
<1>21. ASSUME NEW w \in Workers, StopDrop(w) PROVE Same
  BY <1>21 DEF StopDrop, Flagged, Adding, Subtracting
<1>22. ASSUME NEW w \in Workers, Exit(w) PROVE Same
  BY <1>22 DEF Exit, Flagged, Adding, Subtracting
<1>23. ASSUME NEW t \in Threads, OneLoad(t) PROVE Same
  BY <1>23 DEF OneLoad, Home, Flagged, Adding, Subtracting
<1>24. ASSUME NEW t \in Threads, OneCas(t) PROVE Same
  BY <1>24 DEF OneCas, Home, Flagged, Adding, Subtracting
<1>25. ASSUME NEW t \in Threads, ForceLoad(t) PROVE Same
  BY <1>25 DEF ForceLoad, Home, Flagged, Adding, Subtracting
<1>26. ASSUME NEW t \in Threads, ForceAdd(t) PROVE Same
  BY <1>26 DEF ForceAdd, Flagged, Adding, Subtracting
<1>27. ASSUME NEW t \in Threads, WakeScan(t) PROVE IdleCounting'
  <2>1. Adding' = Adding /\ idleCount' = idleCount
    BY <1>27 DEF WakeScan, Adding
  <2>2. CASE idleFlag[scan[t]]
    <3>1. scan[t] \in Flagged /\ Flagged' = Flagged \ {scan[t]}
      BY <1>27, <2>2 DEF WakeScan, Flagged
    <3>2. t \notin Subtracting /\ Subtracting' = Subtracting \cup {t}
      BY <1>27, <2>2 DEF WakeScan, Subtracting
    <3>3. Cardinality(Flagged') = Cardinality(Flagged) - 1
      BY <1>0, <3>1, CountDown
    <3>4. Cardinality(Subtracting') = Cardinality(Subtracting) + 1
      BY <1>0, <3>2, CountUp
    <3> QED
      BY <1>0, <2>1, <3>3, <3>4 DEF IdleCounting
  <2>3. CASE ~idleFlag[scan[t]]
    <3>1. Flagged' = Flagged
      BY <1>27, <2>3 DEF WakeScan, Flagged
    <3>2. Subtracting' = Subtracting
      BY <1>27, <2>3 DEF WakeScan, Subtracting
    <3> QED
      BY <2>1, <3>1, <3>2 DEF IdleCounting
  <2> QED
    BY <2>2, <2>3
<1>28. ASSUME NEW t \in Threads, WakeDec(t) PROVE IdleCounting'
  <2>1. t \in Subtracting /\ Subtracting' = Subtracting \ {t}
    BY <1>28 DEF WakeDec, Subtracting
  <2>2. Flagged' = Flagged /\ Adding' = Adding /\ idleCount' = idleCount - 1
    BY <1>28 DEF WakeDec, Flagged, Adding
  <2> QED
    BY <1>0, <2>1, <2>2, CountDown DEF IdleCounting
<1>29. ASSUME NEW t \in Threads, WakeUnpark(t) PROVE Same
  BY <1>29 DEF WakeUnpark, Home, Flagged, Adding, Subtracting
<1>30. ASSUME NEW t \in Threads, WakeFail(t) PROVE Same
  BY <1>30 DEF WakeFail, Home, Flagged, Adding, Subtracting
<1>31. ASSUME NEW t \in Threads, NEW h \in Handles, AddHandle(t, h) PROVE Same
  BY <1>31 DEF AddHandle, Home, PushInjector, Flagged, Adding, Subtracting
<1>32. ASSUME NEW t \in Threads, NEW h \in Handles, DeferHandle(t, h) PROVE Same
  BY <1>32 DEF DeferHandle, Home, PushInjector, Flagged, Adding, Subtracting
<1>33. ASSUME NEW t \in Threads, NEW h \in Handles, AddIOHandle(t, h) PROVE Same
  BY <1>33 DEF AddIOHandle, Home, PushInjector, Flagged, Adding, Subtracting
<1>34. ASSUME StopThreads PROVE Same
  BY <1>34 DEF StopThreads, Flagged, Adding, Subtracting
<1>35. ASSUME StopUnpark PROVE Same
  BY <1>35 DEF StopUnpark, Flagged, Adding, Subtracting
<1>36. ASSUME StopWait PROVE Same
  BY <1>36 DEF StopWait, Flagged, Adding, Subtracting
<1>37. ASSUME UNCHANGED vars PROVE Same
  BY <1>37 DEF vars, queueVars, idleVars, stopVars, Flagged, Adding, Subtracting
<1>38. QED
  BY <1>1, <1>2, <1>3, <1>4, <1>5, <1>6, <1>7, <1>8, <1>9, <1>10, <1>11, <1>12, <1>13,
     <1>14, <1>15, <1>16, <1>17, <1>18, <1>19, <1>20, <1>21, <1>22, <1>23, <1>24,
     <1>25, <1>26, <1>27, <1>28, <1>29, <1>30, <1>31, <1>32, <1>33, <1>34, <1>35,
     <1>36, <1>37, <1>a DEF Next, WorkerStep, UnparkStep, Push, Terminated

LEMMA TokenAccountingStep ==
  TypeOK /\ Shape /\ TokenAccounting /\ [Next]_vars => TokenAccounting'
<1> SUFFICES ASSUME TypeOK, Shape, TokenAccounting, [Next]_vars PROVE TokenAccounting'
  OBVIOUS
<1>0. /\ IsFiniteSet(Waking) /\ IsFiniteSet(Speculators) /\ IsFiniteSet(Claimed)
      /\ Cardinality(Waking) \in Nat /\ Cardinality(Speculators) \in Nat
      /\ Cardinality(Claimed) \in Nat /\ speculation \in Int
  BY FiniteThreads, ThreadFacts DEF Waking, Speculators, Claimed, TypeOK
<1> DEFINE Same == /\ Waking' = Waking /\ Speculators' = Speculators /\ Claimed' = Claimed
                   /\ speculation' = speculation /\ (workStopping => workStopping')
<1>a. Same => TokenAccounting'
  BY DEF TokenAccounting, Tokens
<1> USE ThreadFacts DEF TypeOK, ControlOK, At, Goto, idleVars, stopVars
<1>1. ASSUME NEW w \in Workers, FindLocal(w) PROVE Same
  BY <1>1 DEF FindLocal, Found, Settle, Waking, Speculators, Claimed, Listed, Shape
<1>2. ASSUME NEW w \in Workers, FindInjector(w) PROVE Same
  BY <1>2 DEF FindInjector, Found, Settle, Waking, Speculators, Claimed, Listed, Shape
<1>3. ASSUME NEW w \in Workers, FindSteal(w) PROVE Same
  BY <1>3 DEF FindSteal, Found, Settle, Waking, Speculators, Claimed, Listed, Shape
<1>4. ASSUME NEW w \in Workers, NothingFound(w) PROVE Same
  BY <1>4 DEF NothingFound, Waking, Speculators, Claimed, Listed, Shape
<1>5. ASSUME NEW w \in Workers, NothingLeft(w) PROVE Same
  BY <1>5 DEF NothingLeft, BreakLoop, Waking, Speculators, Claimed, Listed, Shape
<1>6. ASSUME NEW w \in Workers, SetFlag(w) PROVE Same
  BY <1>6 DEF SetFlag, Waking, Speculators, Claimed, Listed, Shape
<1>7. ASSUME NEW w \in Workers, SetCount(w) PROVE Same
  BY <1>7 DEF SetCount, Waking, Speculators, Claimed, Listed, Shape
<1>8. ASSUME NEW w \in Workers, Unidle(w) PROVE Same
  BY <1>8 DEF Unidle, ClearFlag, Waking, Speculators, Claimed, Listed, Shape
<1>9. ASSUME NEW w \in Workers, UnidleDec(w) PROVE Same
  BY <1>9 DEF UnidleDec, DecIdleCount, Settle, Waking, Speculators, Claimed, Listed,
     Shape
<1>10. ASSUME NEW w \in Workers, Absorb(w) PROVE TokenAccounting'
  <2>1. w \in Claimed /\ Claimed' = Claimed \ {w}
    BY <1>10 DEF Absorb, Settle, Claimed, Listed, Shape, UnparkPCs
  <2>2. Waking' = Waking
    BY <1>10 DEF Absorb, Settle, Waking
  <2>3. Speculators' = Speculators
    BY <1>10 DEF Absorb, Settle, Speculators, Shape
  <2>4. speculation' = speculation - 1 /\ workStopping' = workStopping
    BY <1>10 DEF Absorb, Settle
  <2>5. Cardinality(Claimed') = Cardinality(Claimed) - 1
    BY <1>0, <2>1, CountDown
  <2> QED
    BY <1>0, <2>2, <2>3, <2>4, <2>5 DEF TokenAccounting, Tokens
<1>11. ASSUME NEW w \in Workers, Release(w) PROVE TokenAccounting'
  <2>1. w \in Speculators /\ Speculators' = Speculators \ {w}
    BY <1>11 DEF Release, Speculators, Shape
  <2>2. Waking' = Waking
    BY <1>11 DEF Release, Waking
  <2>3. Claimed' = Claimed
    BY <1>11 DEF Release, Claimed, Listed, Shape, UnparkPCs
  <2>4. speculation' = speculation - 1 /\ workStopping' = workStopping
    BY <1>11 DEF Release
  <2>5. Cardinality(Speculators') = Cardinality(Speculators) - 1
    BY <1>0, <2>1, CountDown
  <2> QED
    BY <1>0, <2>2, <2>3, <2>4, <2>5 DEF TokenAccounting, Tokens
<1>12. ASSUME NEW w \in Workers, RunReturns(w) PROVE Same
  BY <1>12 DEF RunReturns, Waking, Speculators, Claimed, Listed, Shape
<1>13. ASSUME NEW w \in Workers, Drop(w) PROVE TokenAccounting'
  <2>1. w \in Speculators /\ Speculators' = Speculators \ {w}
    BY <1>13 DEF Drop, Speculators, Shape
  <2>2. Waking' = Waking
    BY <1>13 DEF Drop, Waking
  <2>3. Claimed' = Claimed
    BY <1>13 DEF Drop, Claimed, Listed, Shape, UnparkPCs
  <2>4. speculation' = speculation - 1 /\ workStopping' = workStopping
    BY <1>13 DEF Drop
  <2>5. Cardinality(Speculators') = Cardinality(Speculators) - 1
    BY <1>0, <2>1, CountDown
  <2> QED
    BY <1>0, <2>2, <2>3, <2>4, <2>5 DEF TokenAccounting, Tokens
<1>14. ASSUME NEW w \in Workers, FinalScan(w) PROVE Same
  BY <1>14 DEF FinalScan, Waking, Speculators, Claimed, Listed, Shape
<1>15. ASSUME NEW w \in Workers, Park(w) PROVE Same
  BY <1>15 DEF Park, Waking, Speculators, Claimed, Listed, Shape
<1>16. ASSUME NEW w \in Workers, Woken(w) PROVE TokenAccounting'
  <2>1. Waking' = Waking
    BY <1>16 DEF Woken, ClearFlag, Waking
  <2>2. speculation' = speculation /\ workStopping' = workStopping
    BY <1>16 DEF Woken, ClearFlag
  <2>3. CASE idleFlag[w]
    <3>1. Speculators' = Speculators
      BY <1>16, <2>3 DEF Woken, Speculators, Shape
    <3>2. Claimed' = Claimed
      BY <1>16, <2>3 DEF Woken, ClearFlag, Claimed, Listed
    <3> QED
      BY <2>1, <2>2, <3>1, <3>2, <1>a
  <2>4. CASE ~idleFlag[w]
    <3>1. w \notin Speculators /\ Speculators' = Speculators \cup {w}
      BY <1>16, <2>4 DEF Woken, Speculators, Shape
    <3>2. w \in Claimed /\ Claimed' = Claimed \ {w}
      BY <1>16, <2>4 DEF Woken, ClearFlag, Claimed, Listed, Shape
    <3>3. Cardinality(Speculators') = Cardinality(Speculators) + 1
      BY <1>0, <3>1, CountUp
    <3>4. Cardinality(Claimed') = Cardinality(Claimed) - 1
      BY <1>0, <3>2, CountDown
    <3> QED
      BY <1>0, <2>1, <2>2, <3>3, <3>4 DEF TokenAccounting, Tokens
  <2> QED
    BY <2>3, <2>4
<1>17. ASSUME NEW w \in Workers, WokenDec(w) PROVE Same
  BY <1>17 DEF WokenDec, DecIdleCount, Waking, Speculators, Claimed, Listed, Shape
<1>18. ASSUME NEW w \in Workers, WokenCheck(w) PROVE Same
  BY <1>18 DEF WokenCheck, Waking, Speculators, Claimed, Listed, Shape
<1>19. ASSUME NEW w \in Workers, StopUnidle(w) PROVE TokenAccounting'
  <2>1. Waking' = Waking
    BY <1>19 DEF StopUnidle, ClearFlag, BreakLoop, Waking
  <2>2. Speculators' = Speculators
    BY <1>19 DEF StopUnidle, Speculators
  <2>3. speculation' = speculation /\ workStopping' = workStopping /\ workStopping
    BY <1>19 DEF StopUnidle, ClearFlag, Shape
  <2>4. CASE idleFlag[w]
    <3>1. Claimed' = Claimed
      BY <1>19, <2>4 DEF StopUnidle, ClearFlag, Claimed, Listed
    <3> QED
      BY <2>1, <2>2, <2>3, <3>1, <1>a
  <2>5. CASE ~idleFlag[w]
    <3>1. w \in Claimed /\ Claimed' = Claimed \ {w}
      BY <1>19, <2>5 DEF StopUnidle, ClearFlag, BreakLoop, Claimed, Listed, Shape
    <3>2. Cardinality(Claimed') = Cardinality(Claimed) - 1
      BY <1>0, <3>1, CountDown
    <3> QED
      BY <1>0, <2>1, <2>2, <2>3, <3>2 DEF TokenAccounting, Tokens
  <2> QED
    BY <2>4, <2>5
<1>20. ASSUME NEW w \in Workers, StopUnidleDec(w) PROVE Same
  BY <1>20 DEF StopUnidleDec, DecIdleCount, BreakLoop, Waking, Speculators, Claimed,
     Listed, Shape
<1>21. ASSUME NEW w \in Workers, StopDrop(w) PROVE TokenAccounting'
  <2>1. w \in Speculators /\ Speculators' = Speculators \ {w}
    BY <1>21 DEF StopDrop, Speculators, Shape
  <2>2. Waking' = Waking
    BY <1>21 DEF StopDrop, Waking
  <2>3. Claimed' = Claimed
    BY <1>21 DEF StopDrop, Claimed, Listed, Shape, UnparkPCs
  <2>4. speculation' = speculation - 1 /\ workStopping' = workStopping
    BY <1>21 DEF StopDrop
  <2>5. Cardinality(Speculators') = Cardinality(Speculators) - 1
    BY <1>0, <2>1, CountDown
  <2> QED
    BY <1>0, <2>2, <2>3, <2>4, <2>5 DEF TokenAccounting, Tokens
<1>22. ASSUME NEW w \in Workers, Exit(w) PROVE Same
  BY <1>22 DEF Exit, Waking, Speculators, Claimed, Listed, Shape
<1>23. ASSUME NEW t \in Threads, OneLoad(t) PROVE Same
  BY <1>23 DEF OneLoad, Home, Waking, Speculators, Claimed, Listed, Shape
<1>24. ASSUME NEW t \in Threads, OneCas(t) PROVE TokenAccounting'
  <2>1. CASE speculation = 0
    <3>1. t \notin Waking /\ Waking' = Waking \cup {t}
      BY <1>24, <2>1 DEF OneCas, Waking
    <3>2. Speculators' = Speculators
      BY <1>24 DEF OneCas, Speculators
    <3>3. Claimed' = Claimed
      BY <1>24, <2>1 DEF OneCas, Claimed, Listed
    <3>4. speculation' = speculation + 1 /\ workStopping' = workStopping
      BY <1>24, <2>1 DEF OneCas
    <3>5. Cardinality(Waking') = Cardinality(Waking) + 1
      BY <1>0, <3>1, CountUp
    <3> QED
      BY <1>0, <3>2, <3>3, <3>4, <3>5 DEF TokenAccounting, Tokens
  <2>2. CASE speculation # 0
    <3>1. Same
      BY <1>24, <2>2 DEF OneCas, Home, Waking, Speculators, Claimed, Listed
    <3> QED
      BY <3>1, <1>a
  <2> QED
    BY <2>1, <2>2
<1>25. ASSUME NEW t \in Threads, ForceLoad(t) PROVE Same
  BY <1>25 DEF ForceLoad, Home, Waking, Speculators, Claimed, Listed, Shape
<1>26. ASSUME NEW t \in Threads, ForceAdd(t) PROVE TokenAccounting'
  <2>1. t \notin Waking /\ Waking' = Waking \cup {t}
    BY <1>26 DEF ForceAdd, Waking
  <2>2. Speculators' = Speculators
    BY <1>26 DEF ForceAdd, Speculators, Shape
  <2>3. Claimed' = Claimed
    BY <1>26 DEF ForceAdd, Claimed, Listed, Shape, UnparkPCs
  <2>4. speculation' = speculation + 1 /\ workStopping' = workStopping
    BY <1>26 DEF ForceAdd
  <2>5. Cardinality(Waking') = Cardinality(Waking) + 1
    BY <1>0, <2>1, CountUp
  <2> QED
    BY <1>0, <2>2, <2>3, <2>4, <2>5 DEF TokenAccounting, Tokens
<1>27. ASSUME NEW t \in Threads, WakeScan(t) PROVE TokenAccounting'
  <2>1. Speculators' = Speculators
    BY <1>27 DEF WakeScan, Speculators
  <2>2. speculation' = speculation /\ workStopping' = workStopping
    BY <1>27 DEF WakeScan
  <2>3. CASE idleFlag[scan[t]]
    <3>1. t \in Waking /\ Waking' = Waking \ {t}
      BY <1>27, <2>3 DEF WakeScan, Waking
    <3>2. scan[t] \notin Claimed /\ Claimed' = Claimed \cup {scan[t]}
      BY <1>27, <2>3 DEF WakeScan, Claimed, Listed, Shape
    <3>3. Cardinality(Waking') = Cardinality(Waking) - 1
      BY <1>0, <3>1, CountDown
    <3>4. Cardinality(Claimed') = Cardinality(Claimed) + 1
      BY <1>0, <3>2, CountUp
    <3> QED
      BY <1>0, <2>1, <2>2, <3>3, <3>4 DEF TokenAccounting, Tokens
  <2>4. CASE ~idleFlag[scan[t]]
    <3>1. Waking' = Waking
      BY <1>27, <2>4 DEF WakeScan, Waking
    <3>2. Claimed' = Claimed
      BY <1>27, <2>4 DEF WakeScan, Claimed, Listed
    <3> QED
      BY <2>1, <2>2, <3>1, <3>2, <1>a
  <2> QED
    BY <2>3, <2>4
<1>28. ASSUME NEW t \in Threads, WakeDec(t) PROVE Same
  BY <1>28 DEF WakeDec, Waking, Speculators, Claimed, Listed, Shape
<1>29. ASSUME NEW t \in Threads, WakeUnpark(t) PROVE Same
  BY <1>29 DEF WakeUnpark, Home, Waking, Speculators, Claimed, Listed, Shape
<1>30. ASSUME NEW t \in Threads, WakeFail(t) PROVE TokenAccounting'
  <2>1. t \in Waking /\ Waking' = Waking \ {t}
    BY <1>30 DEF WakeFail, Home, Waking
  <2>2. Speculators' = Speculators
    BY <1>30 DEF WakeFail, Home, Speculators, Shape
  <2>3. Claimed' = Claimed
    BY <1>30 DEF WakeFail, Home, Claimed, Listed, Shape, UnparkPCs
  <2>4. speculation' = speculation - 1 /\ workStopping' = workStopping
    BY <1>30 DEF WakeFail, Home
  <2>5. Cardinality(Waking') = Cardinality(Waking) - 1
    BY <1>0, <2>1, CountDown
  <2> QED
    BY <1>0, <2>2, <2>3, <2>4, <2>5 DEF TokenAccounting, Tokens
<1>31. ASSUME NEW t \in Threads, NEW h \in Handles, AddHandle(t, h) PROVE Same
  BY <1>31 DEF AddHandle, Home, PushInjector, Waking, Speculators, Claimed, Listed,
     Shape
<1>32. ASSUME NEW t \in Threads, NEW h \in Handles, DeferHandle(t, h) PROVE Same
  BY <1>32 DEF DeferHandle, Home, PushInjector, Waking, Speculators, Claimed, Listed,
     Shape
<1>33. ASSUME NEW t \in Threads, NEW h \in Handles, AddIOHandle(t, h) PROVE Same
  BY <1>33 DEF AddIOHandle, Home, PushInjector, Waking, Speculators, Claimed, Listed,
     Shape
<1>34. ASSUME StopThreads PROVE Same
  BY <1>34 DEF StopThreads, Waking, Speculators, Claimed, Listed, Shape
<1>35. ASSUME StopUnpark PROVE Same
  BY <1>35 DEF StopUnpark, Waking, Speculators, Claimed, Listed, Shape
<1>36. ASSUME StopWait PROVE Same
  BY <1>36 DEF StopWait, Waking, Speculators, Claimed, Listed, Shape
<1>37. ASSUME UNCHANGED vars PROVE Same
  BY <1>37 DEF vars, queueVars, idleVars, stopVars, Waking, Speculators, Claimed,
     Listed, Shape
<1>38. QED
  BY <1>1, <1>2, <1>3, <1>4, <1>5, <1>6, <1>7, <1>8, <1>9, <1>10, <1>11, <1>12, <1>13,
     <1>14, <1>15, <1>16, <1>17, <1>18, <1>19, <1>20, <1>21, <1>22, <1>23, <1>24,
     <1>25, <1>26, <1>27, <1>28, <1>29, <1>30, <1>31, <1>32, <1>33, <1>34, <1>35,
     <1>36, <1>37, <1>a DEF Next, WorkerStep, UnparkStep, Push, Terminated
-----------------------------------------------------------------------------
\* Leaving.

LEMMA PendingStep == TypeOK /\ PendingCounts /\ [Next]_vars => PendingCounts'
<1> SUFFICES ASSUME TypeOK, PendingCounts, [Next]_vars PROVE PendingCounts'
  OBVIOUS
<1>0. IsFiniteSet(Gone) /\ Cardinality(Gone) \in Nat /\ N \in Int /\ pending \in Int
  BY FiniteThreads, ThreadFacts, NAssumption DEF Gone, TypeOK
<1> DEFINE Same == /\ Gone' = Gone /\ pending' = pending
                   /\ At(Reactor, "stopped")' => At(Reactor, "stopped")
<1>a. Same => PendingCounts'
  BY DEF PendingCounts
<1> USE ThreadFacts DEF TypeOK, ControlOK, At, Goto, stopVars
<1>1. ASSUME NEW w \in Workers, FindLocal(w) PROVE Same
  BY <1>1 DEF FindLocal, Found, Settle, Gone
<1>2. ASSUME NEW w \in Workers, FindInjector(w) PROVE Same
  BY <1>2 DEF FindInjector, Found, Settle, Gone
<1>3. ASSUME NEW w \in Workers, FindSteal(w) PROVE Same
  BY <1>3 DEF FindSteal, Found, Settle, Gone
<1>4. ASSUME NEW w \in Workers, NothingFound(w) PROVE Same
  BY <1>4 DEF NothingFound, Gone
<1>5. ASSUME NEW w \in Workers, NothingLeft(w) PROVE Same
  BY <1>5 DEF NothingLeft, BreakLoop, Gone
<1>6. ASSUME NEW w \in Workers, SetFlag(w) PROVE Same
  BY <1>6 DEF SetFlag, Gone
<1>7. ASSUME NEW w \in Workers, SetCount(w) PROVE Same
  BY <1>7 DEF SetCount, Gone
<1>8. ASSUME NEW w \in Workers, Unidle(w) PROVE Same
  BY <1>8 DEF Unidle, ClearFlag, Gone
<1>9. ASSUME NEW w \in Workers, UnidleDec(w) PROVE Same
  BY <1>9 DEF UnidleDec, DecIdleCount, Settle, Gone
<1>10. ASSUME NEW w \in Workers, Absorb(w) PROVE Same
  BY <1>10 DEF Absorb, Settle, Gone
<1>11. ASSUME NEW w \in Workers, Release(w) PROVE Same
  BY <1>11 DEF Release, Gone
<1>12. ASSUME NEW w \in Workers, RunReturns(w) PROVE Same
  BY <1>12 DEF RunReturns, Gone
<1>13. ASSUME NEW w \in Workers, Drop(w) PROVE Same
  BY <1>13 DEF Drop, Gone
<1>14. ASSUME NEW w \in Workers, FinalScan(w) PROVE Same
  BY <1>14 DEF FinalScan, Gone
<1>15. ASSUME NEW w \in Workers, Park(w) PROVE Same
  BY <1>15 DEF Park, Gone
<1>16. ASSUME NEW w \in Workers, Woken(w) PROVE Same
  BY <1>16 DEF Woken, ClearFlag, Gone
<1>17. ASSUME NEW w \in Workers, WokenDec(w) PROVE Same
  BY <1>17 DEF WokenDec, DecIdleCount, Gone
<1>18. ASSUME NEW w \in Workers, WokenCheck(w) PROVE Same
  BY <1>18 DEF WokenCheck, Gone
<1>19. ASSUME NEW w \in Workers, StopUnidle(w) PROVE Same
  BY <1>19 DEF StopUnidle, ClearFlag, BreakLoop, Gone
<1>20. ASSUME NEW w \in Workers, StopUnidleDec(w) PROVE Same
  BY <1>20 DEF StopUnidleDec, DecIdleCount, BreakLoop, Gone
<1>21. ASSUME NEW w \in Workers, StopDrop(w) PROVE Same
  BY <1>21 DEF StopDrop, Gone
<1>22. ASSUME NEW w \in Workers, Exit(w) PROVE PendingCounts'
  <2>1. w \notin Gone /\ Gone' = Gone \cup {w}
    BY <1>22 DEF Exit, Gone
  <2>2. pending' = pending - 1
    BY <1>22 DEF Exit
  <2>3. pc'[Reactor] = pc[Reactor]
    BY <1>22 DEF Exit
  <2>4. Cardinality(Gone') = Cardinality(Gone) + 1
    BY <1>0, <2>1, CountUp
  <2> QED
    BY <1>0, <2>2, <2>3, <2>4 DEF PendingCounts
<1>23. ASSUME NEW t \in Threads, OneLoad(t) PROVE Same
  BY <1>23 DEF OneLoad, Home, Gone
<1>24. ASSUME NEW t \in Threads, OneCas(t) PROVE Same
  BY <1>24 DEF OneCas, Home, Gone
<1>25. ASSUME NEW t \in Threads, ForceLoad(t) PROVE Same
  BY <1>25 DEF ForceLoad, Home, Gone
<1>26. ASSUME NEW t \in Threads, ForceAdd(t) PROVE Same
  BY <1>26 DEF ForceAdd, Gone
<1>27. ASSUME NEW t \in Threads, WakeScan(t) PROVE Same
  BY <1>27 DEF WakeScan, Gone
<1>28. ASSUME NEW t \in Threads, WakeDec(t) PROVE Same
  BY <1>28 DEF WakeDec, Gone
<1>29. ASSUME NEW t \in Threads, WakeUnpark(t) PROVE Same
  BY <1>29 DEF WakeUnpark, Home, Gone
<1>30. ASSUME NEW t \in Threads, WakeFail(t) PROVE Same
  BY <1>30 DEF WakeFail, Home, Gone
<1>31. ASSUME NEW t \in Threads, NEW h \in Handles, AddHandle(t, h) PROVE Same
  BY <1>31 DEF AddHandle, Home, PushInjector, Gone
<1>32. ASSUME NEW t \in Threads, NEW h \in Handles, DeferHandle(t, h) PROVE Same
  BY <1>32 DEF DeferHandle, Home, PushInjector, Gone
<1>33. ASSUME NEW t \in Threads, NEW h \in Handles, AddIOHandle(t, h) PROVE Same
  BY <1>33 DEF AddIOHandle, Home, PushInjector, Gone
<1>34. ASSUME StopThreads PROVE Same
  BY <1>34 DEF StopThreads, Gone
<1>35. ASSUME StopUnpark PROVE Same
  BY <1>35 DEF StopUnpark, Gone
<1>36. ASSUME StopWait PROVE PendingCounts'
  <2>1. Gone' = Gone
    BY <1>36 DEF StopWait, Gone
  <2> QED
    BY <1>36, <2>1 DEF StopWait, PendingCounts
<1>37. ASSUME UNCHANGED vars PROVE Same
  BY <1>37 DEF vars, queueVars, idleVars, stopVars, Gone
<1>38. QED
  BY <1>1, <1>2, <1>3, <1>4, <1>5, <1>6, <1>7, <1>8, <1>9, <1>10, <1>11, <1>12, <1>13,
     <1>14, <1>15, <1>16, <1>17, <1>18, <1>19, <1>20, <1>21, <1>22, <1>23, <1>24,
     <1>25, <1>26, <1>27, <1>28, <1>29, <1>30, <1>31, <1>32, <1>33, <1>34, <1>35,
     <1>36, <1>37, <1>a DEF Next, WorkerStep, UnparkStep, Push, Terminated

LEMMA PendingGivesGone == TypeOK /\ PendingCounts => StoppedMeansGone
<1> SUFFICES ASSUME TypeOK, PendingCounts, At(Reactor, "stopped") PROVE Gone = Workers
  BY DEF StoppedMeansGone, Gone
<1>1. IsFiniteSet(Workers) /\ Cardinality(Workers) = N
  BY FS_Interval, NAssumption DEF Workers
<1>2. Gone \subseteq Workers /\ Cardinality(Gone) \in Nat
  BY FiniteThreads, ThreadFacts DEF Gone
<1>3. Cardinality(Gone) >= N /\ Cardinality(Gone) <= Cardinality(Workers)
  BY <1>1, <1>2, FS_Subset, NAssumption DEF PendingCounts, TypeOK
<1> QED
  BY <1>1, <1>2, <1>3, FS_Subset, NAssumption

-----------------------------------------------------------------------------
\* No lost wake.

\* While there is a handle in the injector no worker stops looking for it.
LEMMA BlindStep ==
  ASSUME TypeOK, Shape, [Next]_vars, injector # <<>>, NEW x \in Workers, Blind(x)'
  PROVE  Blind(x)
<1> USE ThreadFacts DEF TypeOK, ControlOK, Blind, At, Goto, idleVars
<1>1. ASSUME NEW w \in Workers, FindLocal(w) PROVE Blind(x)
  BY <1>1 DEF FindLocal, Found, Settle
<1>2. ASSUME NEW w \in Workers, FindInjector(w) PROVE Blind(x)
  BY <1>2 DEF FindInjector, Found, Settle
<1>3. ASSUME NEW w \in Workers, FindSteal(w) PROVE Blind(x)
  BY <1>3 DEF FindSteal, Found, Settle
<1>4. ASSUME NEW w \in Workers, NothingFound(w) PROVE Blind(x)
  BY <1>4 DEF NothingFound
<1>5. ASSUME NEW w \in Workers, NothingLeft(w) PROVE Blind(x)
  BY <1>5 DEF NothingLeft, BreakLoop
<1>6. ASSUME NEW w \in Workers, SetFlag(w) PROVE Blind(x)
  BY <1>6 DEF SetFlag
<1>7. ASSUME NEW w \in Workers, SetCount(w) PROVE Blind(x)
  BY <1>7 DEF SetCount
<1>8. ASSUME NEW w \in Workers, Unidle(w) PROVE Blind(x)
  BY <1>8 DEF Unidle, ClearFlag
<1>9. ASSUME NEW w \in Workers, UnidleDec(w) PROVE Blind(x)
  BY <1>9 DEF UnidleDec, DecIdleCount, Settle
<1>10. ASSUME NEW w \in Workers, Absorb(w) PROVE Blind(x)
  BY <1>10 DEF Absorb, Settle
<1>11. ASSUME NEW w \in Workers, Release(w) PROVE Blind(x)
  BY <1>11 DEF Release
<1>12. ASSUME NEW w \in Workers, RunReturns(w) PROVE Blind(x)
  BY <1>12 DEF RunReturns
<1>13. ASSUME NEW w \in Workers, Drop(w) PROVE Blind(x)
  BY <1>13 DEF Drop
<1>14. ASSUME NEW w \in Workers, FinalScan(w) PROVE Blind(x)
  BY <1>14 DEF FinalScan
<1>15. ASSUME NEW w \in Workers, Park(w) PROVE Blind(x)
  BY <1>15 DEF Park
<1>16. ASSUME NEW w \in Workers, Woken(w) PROVE Blind(x)
  BY <1>16 DEF Woken, ClearFlag
<1>17. ASSUME NEW w \in Workers, WokenDec(w) PROVE Blind(x)
  BY <1>17 DEF WokenDec, DecIdleCount
<1>18. ASSUME NEW w \in Workers, WokenCheck(w) PROVE Blind(x)
  BY <1>18 DEF WokenCheck
<1>19. ASSUME NEW w \in Workers, StopUnidle(w) PROVE Blind(x)
  BY <1>19 DEF StopUnidle, ClearFlag, BreakLoop
<1>20. ASSUME NEW w \in Workers, StopUnidleDec(w) PROVE Blind(x)
  BY <1>20 DEF StopUnidleDec, DecIdleCount, BreakLoop
<1>21. ASSUME NEW w \in Workers, StopDrop(w) PROVE Blind(x)
  BY <1>21 DEF StopDrop
<1>22. ASSUME NEW w \in Workers, Exit(w) PROVE Blind(x)
  BY <1>22 DEF Exit
<1>23. ASSUME NEW t \in Threads, OneLoad(t) PROVE Blind(x)
  BY <1>23 DEF OneLoad, Home
<1>24. ASSUME NEW t \in Threads, OneCas(t) PROVE Blind(x)
  BY <1>24 DEF OneCas, Home
<1>25. ASSUME NEW t \in Threads, ForceLoad(t) PROVE Blind(x)
  BY <1>25 DEF ForceLoad, Home
<1>26. ASSUME NEW t \in Threads, ForceAdd(t) PROVE Blind(x)
  BY <1>26 DEF ForceAdd
<1>27. ASSUME NEW t \in Threads, WakeScan(t) PROVE Blind(x)
  BY <1>27 DEF WakeScan
<1>28. ASSUME NEW t \in Threads, WakeDec(t) PROVE Blind(x)
  BY <1>28 DEF WakeDec
<1>29. ASSUME NEW t \in Threads, WakeUnpark(t) PROVE Blind(x)
  BY <1>29 DEF WakeUnpark, Home
<1>30. ASSUME NEW t \in Threads, WakeFail(t) PROVE Blind(x)
  BY <1>30 DEF WakeFail, Home
<1>31. ASSUME NEW t \in Threads, NEW h \in Handles, AddHandle(t, h) PROVE Blind(x)
  BY <1>31 DEF AddHandle, Home, PushInjector
<1>32. ASSUME NEW t \in Threads, NEW h \in Handles, DeferHandle(t, h) PROVE Blind(x)
  BY <1>32 DEF DeferHandle, Home, PushInjector
<1>33. ASSUME NEW t \in Threads, NEW h \in Handles, AddIOHandle(t, h) PROVE Blind(x)
  BY <1>33 DEF AddIOHandle, Home, PushInjector
<1>34. ASSUME StopThreads PROVE Blind(x)
  BY <1>34 DEF StopThreads
<1>35. ASSUME StopUnpark PROVE Blind(x)
  BY <1>35 DEF StopUnpark
<1>36. ASSUME StopWait PROVE Blind(x)
  BY <1>36 DEF StopWait
<1>37. ASSUME UNCHANGED vars PROVE Blind(x)
  BY <1>37 DEF vars, queueVars, idleVars, stopVars
<1>38. QED
  BY <1>1, <1>2, <1>3, <1>4, <1>5, <1>6, <1>7, <1>8, <1>9, <1>10, <1>11, <1>12, <1>13,
     <1>14, <1>15, <1>16, <1>17, <1>18, <1>19, <1>20, <1>21, <1>22, <1>23, <1>24,
     <1>25, <1>26, <1>27, <1>28, <1>29, <1>30, <1>31, <1>32, <1>33, <1>34, <1>35,
     <1>36, <1>37 DEF Next, WorkerStep, UnparkStep, Push, Terminated

\* When all workers are blind the counter of idle workers says so, and nobody
\* but the reactor can hold a token.
LEMMA AllBlind ==
  ASSUME TypeOK, Shape, IdleCounting, TokenAccounting, ~workStopping, Ext = {Reactor},
         \A w \in Workers : Blind(w)
  PROVE  /\ idleCount # 0
         /\ At(Reactor, "one_cas") => speculation = 0
<1>1. idleCount # 0
  <2>1. Flagged = Workers /\ Adding = {}
    BY DEF Blind, Flagged, Adding, At
  <2>2. Cardinality(Workers) = N /\ Cardinality({}) = 0
    BY FS_Interval, FS_EmptySet, NAssumption DEF Workers
  <2>3. Cardinality(Subtracting) \in Nat
    BY FiniteThreads DEF Subtracting
  <2> QED
    BY <2>1, <2>2, <2>3, NAssumption DEF IdleCounting
<1>2. ASSUME At(Reactor, "one_cas") PROVE speculation = 0
  <2>1. Waking = {}
    BY <1>2, ThreadFacts DEF Waking, Blind, At
  <2>2. Speculators = {} /\ Claimed = {}
    BY DEF Speculators, Claimed, Blind, At
  <2> QED
    BY <2>1, <2>2, FS_EmptySet DEF TokenAccounting, Tokens
<1> QED
  BY <1>1, <1>2

LEMMA WatchedStep ==
  ASSUME TypeOK, Shape, IdleCounting, TokenAccounting, Watched, [Next]_vars,
         Ext = {Reactor}
  PROVE  Watched'
<1> SUFFICES ASSUME injector' # <<>>, ~workStopping', \A w \in Workers : Blind(w)'
             PROVE  Signalling(Reactor)'
  BY DEF Watched
<1>1. ~workStopping
  BY DEF Next, WorkerStep, UnparkStep, Push, Terminated, vars, stopVars, FindLocal,
     FindInjector, FindSteal, NothingFound, NothingLeft, SetFlag, SetCount, Unidle,
     UnidleDec, Absorb, Release, RunReturns, Drop, FinalScan, Park, Woken, WokenDec,
     WokenCheck, StopUnidle, StopUnidleDec, StopDrop, Exit, OneLoad, OneCas, ForceLoad,
     ForceAdd, WakeScan, WakeDec, WakeUnpark, WakeFail, AddHandle, DeferHandle,
     AddIOHandle, StopThreads, StopUnpark, StopWait
<1>2. ASSUME NEW t \in Threads, Push(t) PROVE Signalling(Reactor)'
  <2>1. pc' = [pc EXCEPT ![t] = pc'[t]] /\ pc'[t] \in {"one_load", "force_load"}
    BY <1>2 DEF Push, AddHandle, DeferHandle, AddIOHandle, Goto, TypeOK, ControlOK
  <2>2. t \notin Workers
    BY <2>1 DEF Blind
  <2> QED
    BY <2>1, <2>2, ThreadFacts DEF Signalling
<1>3. ASSUME injector = <<>>, ~(\E t \in Threads : Push(t)) PROVE injector' = <<>>
  BY <1>3 DEF Next, WorkerStep, UnparkStep, Terminated, vars, queueVars, FindLocal,
     FindInjector, FindSteal, NothingFound, NothingLeft, SetFlag, SetCount, Unidle,
     UnidleDec, Absorb, Release, RunReturns, Drop, FinalScan, Park, Woken, WokenDec,
     WokenCheck, StopUnidle, StopUnidleDec, StopDrop, Exit, OneLoad, OneCas, ForceLoad,
     ForceAdd, WakeScan, WakeDec, WakeUnpark, WakeFail, StopThreads, StopUnpark, StopWait
<1>4. ASSUME injector # <<>>, ~(\E t \in Threads : Push(t)) PROVE Signalling(Reactor)'
  <2>1. \A w \in Workers : Blind(w)
    BY <1>4, BlindStep
  <2>2. Signalling(Reactor)
    BY <1>1, <1>4, <2>1 DEF Watched
  <2>3. idleCount # 0 /\ (At(Reactor, "one_cas") => speculation = 0)
    BY <1>1, <2>1, AllBlind
  <2>4. ASSUME UnparkStep(Reactor) PROVE Signalling(Reactor)'
    <3>1. ~WakeScan(Reactor)
      <4> SUFFICES ASSUME WakeScan(Reactor) PROVE FALSE
        OBVIOUS
      <4>1. scan[Reactor] = 1 /\ idleFlag[1]
        BY <2>1, <2>2, ThreadFacts DEF WakeScan, Signalling, At, Blind
      <4>2. idleFlag' = [idleFlag EXCEPT ![1] = FALSE]
        BY <4>1 DEF WakeScan
      <4> QED
        BY <4>2, ThreadFacts DEF Blind, TypeOK
    <3> QED
      BY <2>2, <2>3, <2>4, <3>1, ThreadFacts
         DEF UnparkStep, OneLoad, OneCas, ForceLoad, ForceAdd, WakeDec, WakeUnpark, WakeFail,
             Signalling, Shape, At, Goto, TypeOK, ControlOK
  <2>5. ASSUME pc'[Reactor] = pc[Reactor], scan'[Reactor] = scan[Reactor]
        PROVE  Signalling(Reactor)'
    BY <2>2, <2>5 DEF Signalling, At
  <2>6. ASSUME NEW w \in Workers, WorkerStep(w) PROVE Signalling(Reactor)'
    BY <2>5, <2>6, ThreadFacts DEF WorkerStep, FindLocal,
       FindInjector, FindSteal, NothingFound, NothingLeft, SetFlag, SetCount, Unidle,
       UnidleDec, Absorb, Release, RunReturns, Drop, FinalScan, Park, Woken, WokenDec,
       WokenCheck, StopUnidle, StopUnidleDec, StopDrop, Exit, ClearFlag, DecIdleCount, Goto,
       TypeOK, ControlOK
  <2>7. ASSUME NEW t \in Workers, UnparkStep(t) PROVE Signalling(Reactor)'
    BY <2>5, <2>7, ThreadFacts DEF UnparkStep, OneLoad, OneCas, ForceLoad, ForceAdd,
       WakeScan, WakeDec, WakeUnpark, WakeFail, Goto, TypeOK, ControlOK
  <2>8. ~(StopThreads \/ StopUnpark \/ StopWait)
    BY <1>1, <2>2 DEF StopThreads, StopUnpark, StopWait, Signalling, At
  <2> QED
    BY <1>4, <2>4, <2>5, <2>6, <2>7, <2>8 DEF Next, Threads, Terminated, vars
<1> QED
  BY <1>2, <1>3, <1>4

LEMMA WatchedGivesNothingStranded ==
  ASSUME TypeOK, Shape, LocalEmpty, ClaimedIsWoken, Watched, Ext = {Reactor}
  PROVE  NothingStranded
<1> SUFFICES ASSUME \A w \in Workers : At(w, "park") /\ ~permit[w],
                    \A e \in Ext : At(e, "outside")
             PROVE  injector = <<>> /\ \A w \in Workers : local[w] = <<>>
  BY DEF NothingStranded
<1>1. \A w \in Workers : local[w] = <<>>
  BY DEF LocalEmpty, At
<1>2. \A t \in Threads, w \in Workers : ~WakingUp(t, w)
  BY DEF WakingUp, At, Threads
<1>3. \A w \in Workers : Blind(w)
  BY <1>2 DEF ClaimedIsWoken, Shape, Listed, Blind, At
<1>4. ~Signalling(Reactor) /\ ~workStopping
  BY ThreadFacts DEF Signalling, Shape, At
<1> QED
  BY <1>1, <1>3, <1>4 DEF Watched

-----------------------------------------------------------------------------
\* The theorems.

\* What holds for any set of threads.
IInv ==
  /\ TypeOK /\ Shape /\ LocalEmpty /\ ClaimedIsWoken
  /\ IdleCounting /\ TokenAccounting /\ PendingCounts

LEMMA IInvInit == Init => IInv /\ Watched
<1> SUFFICES ASSUME Init PROVE IInv /\ Watched
  OBVIOUS
<1>1. /\ \A w \in Workers : pc[w] = "find_local"
      /\ \A e \in Ext : pc[e] = "outside"
  BY ThreadFacts DEF Init
<1>2. TypeOK
  BY TypeInit
<1>3. Shape /\ LocalEmpty /\ ClaimedIsWoken /\ Watched
  BY <1>1, ThreadFacts
     DEF Init, Shape, LocalEmpty, ClaimedIsWoken, Watched, Listed, Blind, At, UnparkPCs
<1>4. IdleCounting
  <2>1. Flagged = {} /\ Adding = {} /\ Subtracting = {}
    BY <1>1, ThreadFacts DEF Init, Flagged, Adding, Subtracting, At
  <2> QED
    BY <2>1, FS_EmptySet DEF Init, IdleCounting
<1>5. TokenAccounting
  <2>1. Waking = {} /\ Speculators = {} /\ Claimed = {}
    BY <1>1, ThreadFacts DEF Init, Waking, Speculators, Claimed, Listed, At
  <2> QED
    BY <2>1, FS_EmptySet DEF Init, TokenAccounting, Tokens
<1>6. PendingCounts
  <2>1. Gone = {} /\ ~At(Reactor, "stopped")
    BY <1>1, ThreadFacts DEF Gone, At
  <2> QED
    BY <2>1, FS_EmptySet, NAssumption DEF Init, PendingCounts
<1> QED
  BY <1>2, <1>3, <1>4, <1>5, <1>6 DEF IInv

LEMMA IInvStep == IInv /\ [Next]_vars => IInv'
  BY TypeStep, ShapeStep, LocalEmptyStep, ClaimedStep, IdleCountingStep,
     TokenAccountingStep, PendingStep DEF IInv

\* A worker whose idle flag has been claimed is always woken (work.rs, wake_idle
\* against the rescan and park of work_loop).
THEOREM ClaimedWorkersAreWoken == Spec => []ClaimedIsWoken
<1>1. IInv => ClaimedIsWoken
  BY DEF IInv
<1> QED
  BY <1>1, IInvInit, IInvStep, PTL DEF Spec

\* The two counters every wake decision is taken on, idle_count and speculation,
\* never drift, however set_idle, clear_idle and wake_idle interleave.
THEOREM CountersAreExact == Spec => [](IdleCounting /\ TokenAccounting)
<1>1. IInv => IdleCounting /\ TokenAccounting
  BY DEF IInv
<1> QED
  BY <1>1, IInvInit, IInvStep, PTL DEF Spec

\* No worker goes to sleep or leaves with handles in its own deque.
THEOREM LocalDequesAreServed == Spec => []LocalNeverAbandoned
<1>1. IInv => LocalNeverAbandoned
  BY DEF IInv, LocalEmpty, LocalNeverAbandoned
<1> QED
  BY <1>1, IInvInit, IInvStep, PTL DEF Spec

\* stop_threads returns only after the last worker has left.
THEOREM StopWaitsForAll == Spec => []StoppedMeansGone
<1>1. IInv => StoppedMeansGone
  BY PendingGivesGone DEF IInv
<1> QED
  BY <1>1, IInvInit, IInvStep, PTL DEF Spec

\* When the reactor is the only thread besides the workers that pushes, no handle
\* is ever stranded: the elided wakes of unpark_one are made up for by the searcher
\* that caused them.  (With a second such thread it is false: see
\* WorkScheduleLostWake.cfg.)
THEOREM NoLostWake == ASSUME Ext = {Reactor} PROVE Spec => []NothingStranded
<1>1. IInv /\ Watched => NothingStranded
  BY WatchedGivesNothingStranded DEF IInv
<1>2. IInv /\ Watched /\ [Next]_vars => (IInv /\ Watched)'
  BY IInvStep, WatchedStep DEF IInv
<1> QED
  BY <1>1, <1>2, IInvInit, PTL DEF Spec
-----------------------------------------------------------------------------
\* Handles are neither lost nor copied, and the scheduler implements HandlePool.

InQueue(h) == h \in Content(injector) \/ \E w \in Workers : h \in Content(local[w])
InHand(h)  == \E w \in Workers : cur[w] = h

\* A worker has a handle in hand exactly between find_work and the end of handle.run.
HandEmpty == \A w \in Workers : pc[w] \notin InHandPCs => cur[w] = NoHandle

\* Every handle is in one place: not pushed, in one entry of one queue, in the hand of one
\* worker, or done.
QueuesApart ==
  /\ Once(injector)
  /\ \A w \in Workers : Once(local[w]) /\ Content(local[w]) \cap Content(injector) = {}
  /\ \A v, w \in Workers : v # w => Content(local[v]) \cap Content(local[w]) = {}
  /\ \A v, w \in Workers : v # w /\ cur[v] = cur[w] => cur[v] = NoHandle

PlacesApart ==
  \A h \in Handles :
    /\ h \in fresh \/ InQueue(h) \/ InHand(h) \/ h \in done
    /\ h \in fresh => ~InQueue(h) /\ ~InHand(h) /\ h \notin done
    /\ InQueue(h)  => ~InHand(h) /\ h \notin done
    /\ InHand(h)   => h \notin done

OnePlace == QueuesApart /\ PlacesApart

\* What a step may do to the queues: nothing, a push, a take, or the end of a handle.
Pushes(h) ==
  /\ h \in fresh
  /\ fresh' = fresh \ {h}
  /\ \/ injector' = Append(injector, h) /\ UNCHANGED local
     \/ UNCHANGED injector /\ \E w \in Workers : local' = [local EXCEPT ![w] = Append(local[w], h)]
  /\ UNCHANGED <<cur, done, workStopping>>

Takes(w, h) ==
  /\ cur[w] = NoHandle
  /\ cur' = [cur EXCEPT ![w] = h]
  /\ \/ /\ injector # <<>> /\ h = Head(injector) /\ injector' = Tail(injector)
        /\ UNCHANGED local
     \/ /\ UNCHANGED injector
        /\ \E v \in Workers :
             /\ local[v] # <<>>
             /\ \/ h = Head(local[v]) /\ local' = [local EXCEPT ![v] = Tail(local[v])]
                \/ /\ h = local[v][Len(local[v])]
                   /\ local' = [local EXCEPT ![v] = SubSeq(local[v], 1, Len(local[v]) - 1)]
  /\ UNCHANGED <<fresh, done, workStopping>>

Returns(w) ==
  /\ cur[w] # NoHandle
  /\ cur' = [cur EXCEPT ![w] = NoHandle]
  /\ done' = done \cup {cur[w]}
  /\ UNCHANGED <<injector, local, fresh, workStopping>>

Rests == UNCHANGED queueVars /\ (UNCHANGED workStopping \/ workStopping' = TRUE)

QueueMove ==
  \/ Rests
  \/ \E h \in Handles : Pushes(h)
  \/ \E w \in Workers, h \in Handles : Takes(w, h)
  \/ \E w \in Workers : Returns(w)

\* A step of thread t that leaves it with a handle in hand, or with none as before.
LEMMA HandFollowsControl ==
  ASSUME TypeOK, HandEmpty, NEW t \in Threads, NEW l, Goto(t, l),
         \/ cur' = cur /\ (pc[t] \in InHandPCs => l \in InHandPCs)
         \/ t \in Workers /\ l \in InHandPCs /\ \E h : cur' = [cur EXCEPT ![t] = h]
  PROVE  HandEmpty'
  BY ThreadFacts DEF TypeOK, ControlOK, QueuesOK, HandEmpty, Goto

LEMMA HandEmptyStep == TypeOK /\ HandEmpty /\ [Next]_vars => HandEmpty'
<1> SUFFICES ASSUME TypeOK, HandEmpty, [Next]_vars PROVE HandEmpty'
  OBVIOUS
<1> USE ThreadFacts
    DEF HandEmpty, TypeOK, ControlOK, QueuesOK, InHandPCs, WorkerPCs, UnparkPCs, ExtPCs, At,
        Goto, queueVars
<1>1. ASSUME NEW w \in Workers, FindLocal(w) PROVE HandEmpty'
  <2>1. CASE local[w] # <<>>
    <3>1. Goto(w, Found(w)) /\ Found(w) \in InHandPCs /\ \E h : cur' = [cur EXCEPT ![w] = h]
      BY <1>1, <2>1 DEF FindLocal, Found, Settle, InHandPCs, UnparkPCs
    <3> QED
      BY <3>1, HandFollowsControl
  <2>2. CASE ~(local[w] # <<>>)
    <3>1. pc[w] \notin InHandPCs /\ cur' = cur
      BY <1>1, <2>2 DEF FindLocal
    <3>2. \E l : Goto(w, l)
      BY <1>1, <2>2 DEF FindLocal
    <3> QED
      BY <3>1, <3>2, HandFollowsControl
  <2> QED
    BY <2>1, <2>2
<1>2. ASSUME NEW w \in Workers, FindInjector(w) PROVE HandEmpty'
  <2>1. CASE injector # <<>>
    <3>1. Goto(w, Found(w)) /\ Found(w) \in InHandPCs /\ \E h : cur' = [cur EXCEPT ![w] = h]
      BY <1>2, <2>1 DEF FindInjector, Found, Settle, InHandPCs, UnparkPCs
    <3> QED
      BY <3>1, HandFollowsControl
  <2>2. CASE ~(injector # <<>>)
    <3>1. pc[w] \notin InHandPCs /\ cur' = cur
      BY <1>2, <2>2 DEF FindInjector
    <3>2. \E l : Goto(w, l)
      BY <1>2, <2>2 DEF FindInjector
    <3> QED
      BY <3>1, <3>2, HandFollowsControl
  <2> QED
    BY <2>1, <2>2
<1>3. ASSUME NEW w \in Workers, FindSteal(w) PROVE HandEmpty'
  <2>1. CASE scan[w] # w /\ local[scan[w]] # <<>>
    <3>1. Goto(w, Found(w)) /\ Found(w) \in InHandPCs /\ \E h : cur' = [cur EXCEPT ![w] = h]
      BY <1>3, <2>1 DEF FindSteal, Found, Settle, InHandPCs, UnparkPCs
    <3> QED
      BY <3>1, HandFollowsControl
  <2>2. CASE ~(scan[w] # w /\ local[scan[w]] # <<>>)
    <3>1. pc[w] \notin InHandPCs /\ cur' = cur
      BY <1>3, <2>2 DEF FindSteal
    <3>2. CASE scan[w] = N
      <4>1. Goto(w, "nothing")
        BY <1>3, <2>2, <3>2 DEF FindSteal
      <4> QED
        BY <3>1, <4>1, HandFollowsControl
    <3>3. CASE scan[w] # N
      BY <1>3, <2>2, <3>1, <3>3 DEF FindSteal
    <3> QED
      BY <3>2, <3>3
  <2> QED
    BY <2>1, <2>2
<1>4. ASSUME NEW w \in Workers, NothingFound(w) PROVE HandEmpty'
  BY <1>4 DEF NothingFound
<1>5. ASSUME NEW w \in Workers, NothingLeft(w) PROVE HandEmpty'
  BY <1>5 DEF NothingLeft, BreakLoop
<1>6. ASSUME NEW w \in Workers, SetFlag(w) PROVE HandEmpty'
  BY <1>6 DEF SetFlag
<1>7. ASSUME NEW w \in Workers, SetCount(w) PROVE HandEmpty'
  BY <1>7 DEF SetCount
<1>8. ASSUME NEW w \in Workers, Unidle(w) PROVE HandEmpty'
  BY <1>8 DEF Unidle, ClearFlag
<1>9. ASSUME NEW w \in Workers, UnidleDec(w) PROVE HandEmpty'
  BY <1>9 DEF UnidleDec, DecIdleCount, Settle
<1>10. ASSUME NEW w \in Workers, Absorb(w) PROVE HandEmpty'
  BY <1>10 DEF Absorb, Settle
<1>11. ASSUME NEW w \in Workers, Release(w) PROVE HandEmpty'
  BY <1>11 DEF Release
<1>12. ASSUME NEW w \in Workers, RunReturns(w) PROVE HandEmpty'
  BY <1>12 DEF RunReturns
<1>13. ASSUME NEW w \in Workers, Drop(w) PROVE HandEmpty'
  BY <1>13 DEF Drop
<1>14. ASSUME NEW w \in Workers, FinalScan(w) PROVE HandEmpty'
  <2>1. CASE injector # <<>>
    <3>1. Goto(w, "unidle") /\ "unidle" \in InHandPCs /\ \E h : cur' = [cur EXCEPT ![w] = h]
      BY <1>14, <2>1 DEF FinalScan, InHandPCs, UnparkPCs
    <3> QED
      BY <3>1, HandFollowsControl
  <2>2. CASE ~(injector # <<>>)
    <3>1. pc[w] \notin InHandPCs /\ cur' = cur
      BY <1>14, <2>2 DEF FinalScan
    <3>2. \E l : Goto(w, l)
      BY <1>14, <2>2 DEF FinalScan
    <3> QED
      BY <3>1, <3>2, HandFollowsControl
  <2> QED
    BY <2>1, <2>2
<1>15. ASSUME NEW w \in Workers, Park(w) PROVE HandEmpty'
  BY <1>15 DEF Park
<1>16. ASSUME NEW w \in Workers, Woken(w) PROVE HandEmpty'
  BY <1>16 DEF Woken, ClearFlag
<1>17. ASSUME NEW w \in Workers, WokenDec(w) PROVE HandEmpty'
  BY <1>17 DEF WokenDec, DecIdleCount
<1>18. ASSUME NEW w \in Workers, WokenCheck(w) PROVE HandEmpty'
  BY <1>18 DEF WokenCheck
<1>19. ASSUME NEW w \in Workers, StopUnidle(w) PROVE HandEmpty'
  BY <1>19 DEF StopUnidle, ClearFlag, BreakLoop
<1>20. ASSUME NEW w \in Workers, StopUnidleDec(w) PROVE HandEmpty'
  BY <1>20 DEF StopUnidleDec, DecIdleCount, BreakLoop
<1>21. ASSUME NEW w \in Workers, StopDrop(w) PROVE HandEmpty'
  BY <1>21 DEF StopDrop
<1>22. ASSUME NEW w \in Workers, Exit(w) PROVE HandEmpty'
  BY <1>22 DEF Exit
<1>23. ASSUME NEW t \in Threads, OneLoad(t) PROVE HandEmpty'
  BY <1>23 DEF OneLoad, Home
<1>24. ASSUME NEW t \in Threads, OneCas(t) PROVE HandEmpty'
  <2>1. \E l \in InHandPCs \cup {Home(t)} : Goto(t, l)
    BY <1>24 DEF OneCas, InHandPCs, UnparkPCs
  <2>2. cur' = cur /\ pc[t] \in InHandPCs
    BY <1>24 DEF OneCas, queueVars, At, InHandPCs, UnparkPCs
  <2>3. CASE t \in Workers
    BY <2>1, <2>2, <2>3, HandFollowsControl DEF Home, InHandPCs
  <2>4. CASE t \notin Workers
    BY <2>1, <2>2, <2>4 DEF HandEmpty, Goto, TypeOK, ControlOK
  <2> QED
    BY <2>3, <2>4
<1>25. ASSUME NEW t \in Threads, ForceLoad(t) PROVE HandEmpty'
  BY <1>25 DEF ForceLoad, Home
<1>26. ASSUME NEW t \in Threads, ForceAdd(t) PROVE HandEmpty'
  BY <1>26 DEF ForceAdd
<1>27. ASSUME NEW t \in Threads, WakeScan(t) PROVE HandEmpty'
  <2>1. \/ UNCHANGED pc
        \/ \E l \in InHandPCs : Goto(t, l)
    BY <1>27 DEF WakeScan, InHandPCs, UnparkPCs
  <2>2. cur' = cur
    BY <1>27 DEF WakeScan, queueVars
  <2> QED
    BY <2>1, <2>2, HandFollowsControl, ZenonT(40) DEF HandEmpty
<1>28. ASSUME NEW t \in Threads, WakeDec(t) PROVE HandEmpty'
  BY <1>28 DEF WakeDec
<1>29. ASSUME NEW t \in Threads, WakeUnpark(t) PROVE HandEmpty'
  BY <1>29 DEF WakeUnpark, Home
<1>30. ASSUME NEW t \in Threads, WakeFail(t) PROVE HandEmpty'
  BY <1>30 DEF WakeFail, Home
<1>31. ASSUME NEW t \in Threads, NEW h \in Handles, AddHandle(t, h) PROVE HandEmpty'
  BY <1>31 DEF AddHandle, PushInjector, Home
<1>32. ASSUME NEW t \in Threads, NEW h \in Handles, DeferHandle(t, h) PROVE HandEmpty'
  BY <1>32 DEF DeferHandle, PushInjector, Home
<1>33. ASSUME NEW t \in Threads, NEW h \in Handles, AddIOHandle(t, h) PROVE HandEmpty'
  BY <1>33 DEF AddIOHandle, PushInjector, Home
<1>34. ASSUME StopThreads PROVE HandEmpty'
  BY <1>34 DEF StopThreads
<1>35. ASSUME StopUnpark PROVE HandEmpty'
  BY <1>35 DEF StopUnpark
<1>36. ASSUME StopWait PROVE HandEmpty'
  BY <1>36 DEF StopWait
<1>37. ASSUME UNCHANGED vars PROVE HandEmpty'
  BY <1>37 DEF vars
<1> QED
  BY <1>1, <1>2, <1>3, <1>4, <1>5, <1>6, <1>7, <1>8, <1>9, <1>10, <1>11, <1>12, <1>13,
     <1>14, <1>15, <1>16, <1>17, <1>18, <1>19, <1>20, <1>21, <1>22, <1>23, <1>24, <1>25,
     <1>26, <1>27, <1>28, <1>29, <1>30, <1>31, <1>32, <1>33, <1>34, <1>35, <1>36, <1>37
     DEF Next, WorkerStep, UnparkStep, Push, Terminated

LEMMA EveryStepIsAQueueMove == TypeOK /\ HandEmpty /\ [Next]_vars => QueueMove
<1> SUFFICES ASSUME TypeOK, HandEmpty, [Next]_vars PROVE QueueMove
  OBVIOUS
<1> USE ThreadFacts DEF Rests, queueVars, stopVars
<1>0. \A w \in Workers : pc[w] \in {"find_local", "find_injector", "find_steal", "final_scan"}
                          => cur[w] = NoHandle
  BY DEF HandEmpty, InHandPCs, UnparkPCs
<1>1. ASSUME NEW w \in Workers, FindLocal(w)
      PROVE  Rests \/ \E h \in Handles : Takes(w, h)
  <2>0. cur[w] = NoHandle
    BY <1>0, <1>1 DEF FindLocal, At
  <2>1. CASE local[w] # <<>>
    <3>1. local[w][Len(local[w])] \in Handles
      BY <2>1, SeqFacts DEF TypeOK, QueuesOK, ControlOK
    <3>2. Takes(w, local[w][Len(local[w])])
      BY <1>1, <2>0, <2>1 DEF FindLocal, Takes, stopVars, TypeOK, ControlOK
    <3> QED
      BY <3>1, <3>2
  <2>2. CASE ~(local[w] # <<>>)
    BY <1>1, <2>2 DEF FindLocal
  <2> QED
    BY <2>1, <2>2
<1>2. ASSUME NEW w \in Workers, FindInjector(w)
      PROVE  Rests \/ \E h \in Handles : Takes(w, h)
  <2>0. cur[w] = NoHandle
    BY <1>0, <1>2 DEF FindInjector, At
  <2>1. CASE injector # <<>>
    <3>1. Head(injector) \in Handles
      BY <2>1, SeqFacts DEF TypeOK, QueuesOK, ControlOK
    <3>2. Takes(w, Head(injector))
      BY <1>2, <2>0, <2>1 DEF FindInjector, Takes, stopVars, TypeOK, ControlOK
    <3> QED
      BY <3>1, <3>2
  <2>2. CASE ~(injector # <<>>)
    BY <1>2, <2>2 DEF FindInjector
  <2> QED
    BY <2>1, <2>2
<1>3. ASSUME NEW w \in Workers, FindSteal(w)
      PROVE  Rests \/ \E h \in Handles : Takes(w, h)
  <2>0. cur[w] = NoHandle
    BY <1>0, <1>3 DEF FindSteal, At
  <2>1. CASE scan[w] # w /\ local[scan[w]] # <<>>
    <3>1. Head(local[scan[w]]) \in Handles
      BY <2>1, SeqFacts DEF TypeOK, QueuesOK, ControlOK
    <3>2. Takes(w, Head(local[scan[w]]))
      BY <1>3, <2>0, <2>1 DEF FindSteal, Takes, stopVars, TypeOK, ControlOK
    <3> QED
      BY <3>1, <3>2
  <2>2. CASE ~(scan[w] # w /\ local[scan[w]] # <<>>)
    BY <1>3, <2>2 DEF FindSteal
  <2> QED
    BY <2>1, <2>2
<1>4. ASSUME NEW w \in Workers, NothingFound(w) PROVE Rests
  BY <1>4 DEF NothingFound
<1>5. ASSUME NEW w \in Workers, NothingLeft(w) PROVE Rests
  BY <1>5 DEF NothingLeft
<1>6. ASSUME NEW w \in Workers, SetFlag(w) PROVE Rests
  BY <1>6 DEF SetFlag
<1>7. ASSUME NEW w \in Workers, SetCount(w) PROVE Rests
  BY <1>7 DEF SetCount
<1>8. ASSUME NEW w \in Workers, Unidle(w) PROVE Rests
  BY <1>8 DEF Unidle
<1>9. ASSUME NEW w \in Workers, UnidleDec(w) PROVE Rests
  BY <1>9 DEF UnidleDec
<1>10. ASSUME NEW w \in Workers, Absorb(w) PROVE Rests
  BY <1>10 DEF Absorb
<1>11. ASSUME NEW w \in Workers, Release(w) PROVE Rests
  BY <1>11 DEF Release
<1>12. ASSUME NEW w \in Workers, RunReturns(w) PROVE Returns(w)
  BY <1>12 DEF RunReturns, Returns, At, InHandPCs, TypeOK, QueuesOK, stopVars
<1>13. ASSUME NEW w \in Workers, Drop(w) PROVE Rests
  BY <1>13 DEF Drop
<1>14. ASSUME NEW w \in Workers, FinalScan(w)
      PROVE  Rests \/ \E h \in Handles : Takes(w, h)
  <2>0. cur[w] = NoHandle
    BY <1>0, <1>14 DEF FinalScan, At
  <2>1. CASE injector # <<>>
    <3>1. Head(injector) \in Handles
      BY <2>1, SeqFacts DEF TypeOK, QueuesOK, ControlOK
    <3>2. Takes(w, Head(injector))
      BY <1>14, <2>0, <2>1 DEF FinalScan, Takes, stopVars, TypeOK, ControlOK
    <3> QED
      BY <3>1, <3>2
  <2>2. CASE ~(injector # <<>>)
    BY <1>14, <2>2 DEF FinalScan
  <2> QED
    BY <2>1, <2>2
<1>15. ASSUME NEW w \in Workers, Park(w) PROVE Rests
  BY <1>15 DEF Park
<1>16. ASSUME NEW w \in Workers, Woken(w) PROVE Rests
  BY <1>16 DEF Woken
<1>17. ASSUME NEW w \in Workers, WokenDec(w) PROVE Rests
  BY <1>17 DEF WokenDec
<1>18. ASSUME NEW w \in Workers, WokenCheck(w) PROVE Rests
  BY <1>18 DEF WokenCheck
<1>19. ASSUME NEW w \in Workers, StopUnidle(w) PROVE Rests
  BY <1>19 DEF StopUnidle
<1>20. ASSUME NEW w \in Workers, StopUnidleDec(w) PROVE Rests
  BY <1>20 DEF StopUnidleDec
<1>21. ASSUME NEW w \in Workers, StopDrop(w) PROVE Rests
  BY <1>21 DEF StopDrop
<1>22. ASSUME NEW w \in Workers, Exit(w) PROVE Rests
  BY <1>22 DEF Exit
<1>23. ASSUME NEW t \in Threads, OneLoad(t) PROVE Rests
  BY <1>23 DEF OneLoad
<1>24. ASSUME NEW t \in Threads, OneCas(t) PROVE Rests
  BY <1>24 DEF OneCas
<1>25. ASSUME NEW t \in Threads, ForceLoad(t) PROVE Rests
  BY <1>25 DEF ForceLoad
<1>26. ASSUME NEW t \in Threads, ForceAdd(t) PROVE Rests
  BY <1>26 DEF ForceAdd
<1>27. ASSUME NEW t \in Threads, WakeScan(t) PROVE Rests
  BY <1>27 DEF WakeScan
<1>28. ASSUME NEW t \in Threads, WakeDec(t) PROVE Rests
  BY <1>28 DEF WakeDec
<1>29. ASSUME NEW t \in Threads, WakeUnpark(t) PROVE Rests
  BY <1>29 DEF WakeUnpark
<1>30. ASSUME NEW t \in Threads, WakeFail(t) PROVE Rests
  BY <1>30 DEF WakeFail
<1>31. ASSUME NEW t \in Threads, NEW h \in Handles, AddHandle(t, h) PROVE Pushes(h)
  BY <1>31 DEF AddHandle, PushInjector, Pushes, stopVars
<1>32. ASSUME NEW t \in Threads, NEW h \in Handles, DeferHandle(t, h) PROVE Pushes(h)
  BY <1>32 DEF DeferHandle, PushInjector, Pushes, stopVars
<1>33. ASSUME NEW t \in Threads, NEW h \in Handles, AddIOHandle(t, h) PROVE Pushes(h)
  BY <1>33 DEF AddIOHandle, PushInjector, Pushes, stopVars
<1>34. ASSUME StopThreads PROVE Rests
  BY <1>34 DEF StopThreads
<1>35. ASSUME StopUnpark PROVE Rests
  BY <1>35 DEF StopUnpark
<1>36. ASSUME StopWait PROVE Rests
  BY <1>36 DEF StopWait
<1>37. ASSUME UNCHANGED vars PROVE Rests
  BY <1>37 DEF vars
<1> QED
  BY <1>1, <1>2, <1>3, <1>4, <1>5, <1>6, <1>7, <1>8, <1>9, <1>10, <1>11, <1>12, <1>13,
     <1>14, <1>15, <1>16, <1>17, <1>18, <1>19, <1>20, <1>21, <1>22, <1>23, <1>24, <1>25,
     <1>26, <1>27, <1>28, <1>29, <1>30, <1>31, <1>32, <1>33, <1>34, <1>35, <1>36, <1>37
     DEF QueueMove, Next, WorkerStep, UnparkStep, Push, Terminated
\* The other half of the queue operations: what happens to the place of each handle.
LEMMA OnePlaceStep == TypeOK /\ OnePlace /\ QueueMove => OnePlace'
<1> SUFFICES ASSUME TypeOK, OnePlace, QueueMove PROVE OnePlace'
  OBVIOUS
<1> USE HandlesAssumption DEF TypeOK, QueuesOK
<1>1. CASE Rests
  BY <1>1 DEF Rests, queueVars, OnePlace, QueuesApart, PlacesApart, InQueue, InHand
<1>2. ASSUME NEW h \in Handles, Pushes(h) PROVE OnePlace'
  <2>1. CASE injector' = Append(injector, h) /\ UNCHANGED local
    <3>1. Content(injector') = Content(injector) \cup {h}
          /\ (h \notin Content(injector) => Once(injector'))
      BY <2>1, AppendContent DEF OnePlace, QueuesApart
    <3>2. h \notin Content(injector) /\ \A u \in Workers : h \notin Content(local[u]) /\ cur[u] # h
      BY <1>2 DEF Pushes, OnePlace, PlacesApart, InQueue, InHand
    <3>3. QueuesApart'
      BY <1>2, <2>1, <3>1, <3>2 DEF Pushes, OnePlace, QueuesApart
    <3>4. PlacesApart'
      BY <1>2, <2>1, <3>1, <3>2 DEF Pushes, OnePlace, PlacesApart, InQueue, InHand
    <3> QED
      BY <3>3, <3>4 DEF OnePlace
  <2>2. ASSUME NEW w \in Workers, local' = [local EXCEPT ![w] = Append(local[w], h)],
               UNCHANGED injector
        PROVE  OnePlace'
    <3>1. /\ Content(local'[w]) = Content(local[w]) \cup {h}
          /\ h \notin Content(local[w]) => Once(local'[w])
          /\ \A v \in Workers : v # w => local'[v] = local[v]
      BY <2>2, AppendContent DEF OnePlace, QueuesApart
    <3>2. h \notin Content(injector) /\ \A u \in Workers : h \notin Content(local[u]) /\ cur[u] # h
      BY <1>2 DEF Pushes, OnePlace, PlacesApart, InQueue, InHand
    <3>3. QueuesApart'
      BY <1>2, <2>2, <3>1, <3>2 DEF Pushes, OnePlace, QueuesApart
    <3>4. \A x \in Handles : InQueue(x)' <=> InQueue(x) \/ x = h
      BY <2>2, <3>1 DEF InQueue
    <3>5. \A x \in Handles : InHand(x)' <=> InHand(x)
      BY <1>2 DEF Pushes, InHand
    <3>6. PlacesApart'
      BY <1>2, <3>4, <3>5 DEF Pushes, OnePlace, PlacesApart
    <3> QED
      BY <3>3, <3>6 DEF OnePlace
  <2> QED
    BY <1>2, <2>1, <2>2 DEF Pushes
<1>3. ASSUME NEW w \in Workers, NEW h \in Handles, Takes(w, h) PROVE OnePlace'
  <2>0. cur'[w] = h /\ cur[w] = NoHandle /\ \A v \in Workers : v # w => cur'[v] = cur[v]
    BY <1>3 DEF Takes
  <2>1. CASE injector # <<>> /\ h = Head(injector) /\ injector' = Tail(injector)
             /\ UNCHANGED local
    <3>1. /\ h \in Content(injector) /\ Content(injector') = Content(injector) \ {h}
          /\ Once(injector')
      BY <2>1, TailContent DEF OnePlace, QueuesApart
    <3> QED
      BY <1>3, <2>0, <2>1, <3>1
         DEF Takes, OnePlace, QueuesApart, PlacesApart, InQueue, InHand
  <2>2. ASSUME NEW v \in Workers, NEW s, local' = [local EXCEPT ![v] = s], UNCHANGED injector,
               h \in Content(local[v]), Content(s) = Content(local[v]) \ {h}, Once(s)
        PROVE  OnePlace'
    <3>1. local'[v] = s /\ \A u \in Workers : u # v => local'[u] = local[u]
      BY <2>2
    <3>2. InQueue(h) /\ (\A u \in Workers : cur[u] # h) /\ h \notin Content(injector)
          /\ h \notin fresh /\ h \notin done
      BY <2>2 DEF OnePlace, PlacesApart, QueuesApart, InQueue, InHand
    <3>3. QueuesApart'
      <4>1. \A u \in Workers : Content(local'[u]) \subseteq Content(local[u]) /\ Once(local'[u])
        BY <2>2, <3>1 DEF OnePlace, QueuesApart
      <4>2. \A u, x \in Workers : u # x /\ cur'[u] = cur'[x] => cur'[u] = NoHandle
        BY <2>0, <3>2 DEF OnePlace, QueuesApart
      <4> QED
        BY <2>2, <4>1, <4>2 DEF OnePlace, QueuesApart
    <3>4. \A x \in Handles : InQueue(x)' <=> InQueue(x) /\ x # h
      BY <2>2, <3>1, <3>2, ZenonT(40) DEF InQueue, OnePlace, QueuesApart
    <3>5. \A x \in Handles : InHand(x)' <=> InHand(x) \/ x = h
      BY <2>0 DEF InHand
    <3>6. fresh' = fresh /\ done' = done
      BY <1>3 DEF Takes
    <3>7. PlacesApart'
      BY <3>2, <3>4, <3>5, <3>6 DEF OnePlace, PlacesApart
    <3> QED
      BY <3>3, <3>7 DEF OnePlace
  <2>3. ASSUME NEW v \in Workers, local[v] # <<>>, UNCHANGED injector, h = Head(local[v]),
               local' = [local EXCEPT ![v] = Tail(local[v])]
        PROVE  OnePlace'
    BY <2>2, <2>3, TailContent DEF OnePlace, QueuesApart
  <2>4. ASSUME NEW v \in Workers, local[v] # <<>>, UNCHANGED injector,
               h = local[v][Len(local[v])],
               local' = [local EXCEPT ![v] = SubSeq(local[v], 1, Len(local[v]) - 1)]
        PROVE  OnePlace'
    <3>1. LET s == SubSeq(local[v], 1, Len(local[v]) - 1) IN
          h \in Content(local[v]) /\ Content(s) = Content(local[v]) \ {h} /\ Once(s)
      BY <2>4, FrontContent DEF OnePlace, QueuesApart
    <3> QED
      BY <2>2, <2>4, <3>1
  <2> QED
    BY <1>3, <2>1, <2>3, <2>4 DEF Takes
<1>4. ASSUME NEW w \in Workers, Returns(w) PROVE OnePlace'
  <2>0. cur'[w] = NoHandle /\ cur[w] # NoHandle /\ \A v \in Workers : v # w => cur'[v] = cur[v]
    BY <1>4 DEF Returns
  <2> QED
    BY <1>4, <2>0 DEF Returns, OnePlace, QueuesApart, PlacesApart, InQueue, InHand
<1> QED
  BY <1>1, <1>2, <1>3, <1>4 DEF QueueMove
PoolInv == TypeOK /\ HandEmpty /\ OnePlace

LEMMA PoolInvInit == Init => PoolInv
<1> SUFFICES ASSUME Init PROVE PoolInv
  OBVIOUS
<1>1. \A w \in Workers : cur[w] = NoHandle /\ local[w] = <<>>
  BY DEF Init
<1>2. Content(<<>>) = {} /\ \A h : Content(<<h>>) = {h} /\ Once(<<h>>) /\ Once(<<>>)
  BY DEF Content, Once
<1>3. QueuesApart
  BY <1>1, <1>2 DEF Init, QueuesApart
<1>4. PlacesApart
  BY <1>1, <1>2, HandlesAssumption DEF Init, PlacesApart, InQueue, InHand
<1> QED
  BY <1>1, <1>3, <1>4, TypeInit DEF PoolInv, OnePlace, HandEmpty

LEMMA PoolInvStep == PoolInv /\ [Next]_vars => PoolInv' /\ QueueMove
  BY TypeStep, HandEmptyStep, EveryStepIsAQueueMove, OnePlaceStep DEF PoolInv

\* No queue operation of the scheduler loses a handle or makes a second one of it: at any
\* moment each is in exactly one place (find_work's three sources, the steal among them,
\* against the pushes of every other thread).
THEOREM HandlesAreKept == Spec => []OnePlace
<1>1. PoolInv => OnePlace
  BY DEF PoolInv
<1> QED
  BY <1>1, PoolInvInit, PoolInvStep, PTL DEF Spec

\* A worker whose hand is empty leaves room for one more running handle.
LEMMA RoomForOne ==
  ASSUME TypeOK, NEW w \in Workers, cur[w] = NoHandle
  PROVE  Cardinality({h \in Handles : InHand(h)}) < N
<1> DEFINE S == {v \in Workers : cur[v] # NoHandle}
           R == {h \in Handles : InHand(h)}
           f == [v \in S |-> cur[v]]
<1>1. IsFiniteSet(Workers) /\ Cardinality(Workers) = N
  BY FS_Interval, NAssumption DEF Workers
<1>2. IsFiniteSet(S) /\ Cardinality(S) <= Cardinality(Workers)
      /\ (Cardinality(Workers) = Cardinality(S) => S = Workers)
  BY <1>1, FS_Subset
<1>3. f \in Surjection(S, R)
  BY HandlesAssumption DEF Surjection, InHand, TypeOK, QueuesOK
<1>4. IsFiniteSet(R) /\ Cardinality(R) <= Cardinality(S)
  BY <1>2, <1>3, FS_Surjection
<1>5. S # Workers /\ Cardinality(S) \in Nat /\ Cardinality(R) \in Nat
  BY <1>2, <1>4, FS_CardinalityType
<1> QED
  BY <1>1, <1>2, <1>4, <1>5, NAssumption

\* What HandlePool sees of a handle, and of all of them.
StatusOf(h) ==
  CASE h \in fresh                   -> "fresh"
    [] \E w \in Workers : cur[w] = h -> "running"
    [] h \in done                    -> "done"
    [] OTHER                         -> "queued"

Statuses == [h \in Handles |-> StatusOf(h)]

LEMMA StatusIsPlace ==
  ASSUME PlacesApart, NEW h \in Handles
  PROVE  StatusOf(h) = IF h \in fresh THEN "fresh" ELSE IF InHand(h) THEN "running"
                       ELSE IF h \in done THEN "done" ELSE "queued"
<1>1. h \in fresh => StatusOf(h) = "fresh"
  BY DEF StatusOf, PlacesApart, InHand
<1>2. InHand(h) => StatusOf(h) = "running"
  BY DEF StatusOf, InHand, PlacesApart
<1>3. h \in done => StatusOf(h) = "done"
  BY DEF StatusOf, InHand, PlacesApart
<1>4. h \notin fresh /\ ~InHand(h) /\ h \notin done => StatusOf(h) = "queued"
  BY DEF StatusOf, InHand, PlacesApart
<1> QED
  BY <1>1, <1>2, <1>3, <1>4 DEF PlacesApart

\* A step that moves no handle but h.
Moves(h) == \A x \in Handles \ {h} :
  /\ x \in fresh' <=> x \in fresh
  /\ InHand(x)' <=> InHand(x)
  /\ x \in done' <=> x \in done

LEMMA StatusMoves ==
  ASSUME NEW h \in Handles, Moves(h)
  PROVE  Statuses' = [Statuses EXCEPT ![h] = StatusOf(h)']
<1>1. ASSUME NEW x \in Handles, x # h PROVE StatusOf(x)' = StatusOf(x)
  <2>1. /\ x \in fresh' <=> x \in fresh
        /\ (\E w \in Workers : cur'[w] = x) <=> (\E w \in Workers : cur[w] = x)
        /\ x \in done' <=> x \in done
    BY <1>1 DEF Moves, InHand
  <2> QED
    BY <2>1 DEF StatusOf
<1> QED
  BY <1>1 DEF Statuses

\* HandlePool counts with the Cardinality of its own FiniteSets.
LEMMA PoolCardinality == ASSUME NEW S PROVE Pool!Cardinality(S) = Cardinality(S)
  BY DEF Pool!Cardinality, Cardinality, Pool!IsFiniteSet, IsFiniteSet

LEMMA MoveIsPoolStep ==
  PoolInv /\ PoolInv' /\ QueueMove => [Pool!PoolNext]_(Pool!poolVars)
<1> SUFFICES ASSUME PoolInv, PoolInv', QueueMove PROVE [Pool!PoolNext]_(Pool!poolVars)
  OBVIOUS
<1>0. PlacesApart /\ PlacesApart' /\ TypeOK /\ QueuesApart'
  BY DEF PoolInv, OnePlace
<1>1. CASE Rests
  BY <1>1 DEF Rests, queueVars, Pool!PoolNext, Pool!Halt, Pool!poolVars
<1>2. ASSUME NEW h \in Handles, Pushes(h) PROVE Pool!Submit(h)
  <2>1. h \in fresh /\ ~InHand(h) /\ h \notin done
    BY <1>0, <1>2 DEF Pushes, PlacesApart
  <2>2. h \notin fresh' /\ ~InHand(h)' /\ h \notin done'
    BY <1>2, <2>1 DEF Pushes, InHand
  <2>3. Moves(h)
    BY <1>2 DEF Pushes, InHand, Moves
  <2>4. StatusOf(h) = "fresh" /\ StatusOf(h)' = "queued"
    BY <1>0, <2>1, <2>2, StatusIsPlace DEF StatusOf, InHand
  <2>5. Statuses' = [Statuses EXCEPT ![h] = "queued"] /\ Statuses[h] = "fresh"
    BY <2>3, <2>4, StatusMoves DEF Statuses
  <2> QED
    BY <1>2, <2>5 DEF Pushes, Pool!Submit, Pool!Move, Statuses, StatusOf
<1>3. ASSUME NEW w \in Workers, NEW h \in Handles, Takes(w, h) PROVE Pool!Take(h)
  <2>1. /\ cur[w] = NoHandle /\ cur'[w] = h /\ h # NoHandle
        /\ \A v \in Workers : v # w => cur'[v] = cur[v]
        /\ UNCHANGED <<fresh, done, workStopping>>
    BY <1>0, <1>3, HandlesAssumption DEF Takes, TypeOK, QueuesOK
  <2>2. InHand(h)' /\ h \notin fresh' /\ h \notin done'
    BY <1>0, <2>1 DEF InHand, PlacesApart
  <2>3. ~InHand(h)
    BY <1>0, <2>1 DEF InHand, QueuesApart
  <2>4. Moves(h)
    BY <2>1, HandlesAssumption DEF InHand, Moves
  <2>5. StatusOf(h) = "queued" /\ StatusOf(h)' = "running"
    BY <2>1, <2>2, <2>3 DEF StatusOf, InHand
  <2>6. Statuses' = [Statuses EXCEPT ![h] = "running"] /\ Statuses[h] = "queued"
    BY <2>4, <2>5, StatusMoves DEF Statuses
  <2>7. {x \in Handles : Statuses[x] = "running"} = {x \in Handles : InHand(x)}
    <3>1. ASSUME NEW x \in Handles PROVE Statuses[x] = "running" <=> InHand(x)
      BY <1>0, StatusIsPlace DEF Statuses, PlacesApart
    <3> QED
      BY <3>1
  <2>8. Cardinality({x \in Handles : Statuses[x] = "running"}) < N
    BY <1>0, <2>1, <2>7, RoomForOne
  <2> QED
    BY <2>1, <2>6, <2>8, PoolCardinality DEF Pool!Take, Pool!Move, Pool!InState, Statuses, StatusOf
<1>4. ASSUME NEW w \in Workers, Returns(w) PROVE \E h \in Handles : Pool!Return(h)
  <2>0. PICK h \in Handles : h = cur[w]
    BY <1>0, <1>4 DEF Returns, TypeOK, QueuesOK
  <2>1. /\ h \in Handles /\ cur'[w] = NoHandle /\ h # NoHandle
        /\ \A v \in Workers : v # w => cur'[v] = cur[v]
        /\ done' = done \cup {h} /\ UNCHANGED <<fresh, workStopping>>
    BY <1>0, <1>4, <2>0 DEF Returns, TypeOK, QueuesOK
  <2>2. InHand(h) /\ h \notin fresh /\ h \notin done
    BY <1>0, <2>0, <2>1 DEF InHand, PlacesApart
  <2>3. h \in done' /\ h \notin fresh' /\ ~InHand(h)'
    <3>1. h \in done'
      BY <2>1
    <3> QED
      BY <1>0, <2>1, <3>1 DEF PlacesApart
  <2>4. Moves(h)
    BY <2>0, <2>1, HandlesAssumption DEF InHand, Moves
  <2>5. StatusOf(h) = "running" /\ StatusOf(h)' = "done"
    BY <2>1, <2>2, <2>3 DEF StatusOf, InHand
  <2>6. Statuses' = [Statuses EXCEPT ![h] = "done"] /\ Statuses[h] = "running"
    BY <2>1, <2>4, <2>5, StatusMoves DEF Statuses
  <2> QED
    BY <2>1, <2>6 DEF Pool!Return, Pool!Move, Statuses, StatusOf
<1> QED
  BY <1>1, <1>2, <1>3, <1>4 DEF QueueMove, Pool!PoolNext

LEMMA PoolInitially == Init /\ PoolInv => Pool!PoolInit
<1> SUFFICES ASSUME Init, PoolInv PROVE Pool!PoolInit
  OBVIOUS
<1>1. ASSUME NEW h \in Handles PROVE StatusOf(h) \in {"fresh", "queued"}
  BY HandlesAssumption DEF Init, StatusOf
<1> QED
  BY <1>1 DEF Init, Pool!PoolInit, StatusOf

\* The scheduler implements what HandlePool may do: every step of every thread leaves the
\* pool alone or submits, takes or returns one handle, so a handle is run at most once, by
\* one worker, and only after it was pushed.  (That it is run eventually stays with TLC.)
THEOREM RefinesPool == Spec => Pool!PoolSafety
<1>1. Init => Pool!PoolInit
  BY PoolInvInit, PoolInitially
<1>2. PoolInv /\ [Next]_vars => PoolInv' /\ [Pool!PoolNext]_(Pool!poolVars)
  BY PoolInvStep, MoveIsPoolStep
<1> QED
  BY <1>1, <1>2, PoolInvInit, PTL DEF Spec, Pool!PoolSafety
=============================================================================
