--------------------------- MODULE SocketProofs ---------------------------
(***************************************************************************)
(* Proofs about FdReadiness, for every number of threads, of calls of      *)
(* add_reader and of sock_recv, every application and every width of the   *)
(* tick; and about Connection with its server, for every set of tasks,     *)
(* whatever their scripts are, and every set of addresses and of callers.  *)
(***************************************************************************)
EXTENDS FdReadiness, Connection, SequenceTheorems, FiniteSetTheorems, TLAPS

-----------------------------------------------------------------------------
\* The inductive invariant.

\* What a thread is at, and who holds _sios_lock.
ThreadsInv ==
  \A a \in Threads :
    /\ pc[a] \in DropPCs \cup {"sio"} <=> siosLock = a
    /\ pc[a] \in {"cancelold", "run", "arm", "kernel"} => on[a] \in Handles
    /\ pc[a] \in {"sio", "try"} => on[a] \in Recvs
    /\ pc[a] \in {"load", "store", "tick", "clear"} => on[a] \in Users
    /\ pc[a] \in DropPCs => on[a] \in Regs
    /\ pc[a] = "cancelold" => old[a] \in Handles
    /\ pc[a] \in DropPCs => old[a] \in Recvs \cup {None}
    /\ pc[a] \notin DropPCs \cup {"cancelold"} => old[a] = None

\* The call of sock_recv that has still to get its registration.
Entering(a) == pc[a] = "sio" \/ (pc[a] \in DropPCs /\ old[a] # None)
Pending == IF \E a \in Threads : Entering(a) THEN 1 ELSE 0

Counts ==
  /\ data <= arrived
  /\ made + Pending <= added + recvd
  /\ reader # None => current # None

\* epoll knows a registration only while it is live, and the event of a batch belongs to one
\* that the poll thread itself has still to free.
KernelInv ==
  /\ polled # None => life[polled] = "live"
  /\ edge => polled # None
  /\ \A a \in Threads : pc[a] \in DropPCs \ {"deregister"} => polled = None
  /\ poll \in {"set", "wake"} => token \in Regs /\ life[token] \in {"live", "parked"}

\* The handle, or the task in a helper, that a thread has: it runs the callback, or arms it, or
\* is in the helper.
Where(a) ==
  IF pc[a] \in {"run", "cancelold"} \cup ArmPCs THEN on[a]
  ELSE IF pc[a] \in DropPCs THEN old[a] ELSE None
Busy(h) == \E a \in Threads : Where(a) = h

\* Each is in one place: with one thread, in the injector once, in one slot or in the hands of
\* the poll thread.
OnePlace ==
  \A h \in Users :
    /\ \A a, b \in Threads : Where(a) = h /\ Where(b) = h => a = b
    /\ Busy(h) => queued[h] = 0
    /\ Busy(h) \/ queued[h] > 0 => woken # h /\ \A s \in Regs : slot[s] # h
    /\ queued[h] <= 1
    /\ \A s \in Regs : slot[s] = h => woken # h /\ \A t \in Regs : slot[t] = h => t = s

\* Those that are not made yet are nowhere.
Made(h) == IF h \in Handles THEN h <= added ELSE h <= MaxAdds + recvd
Nowhere(h) == ~Busy(h) /\ queued[h] = 0 /\ woken # h /\ \A s \in Regs : slot[s] # h

Unmade ==
  \A h \in Users :
    ~Made(h) => Nowhere(h) /\ ~active[h] /\ h # reader /\ (h \in Recvs => need[h] = 0)

\* Those that are past _registration have one, and wait in its slot only.
SioInv ==
  /\ \A a \in Threads : pc[a] \in {"run", "cancelold"} \cup (ArmPCs \ {"sio"}) => sio[on[a]] \in Regs
  /\ \A h \in Users : active[h] \/ queued[h] > 0 \/ woken = h => sio[h] \in Regs
  /\ \A h \in Users, s \in Regs : slot[s] = h => sio[h] = s

\* A task that is resumed, or may be, has something to do.
NeedInv ==
  \A r \in Recvs : active[r] \/ queued[r] > 0 \/ Busy(r) => need[r] > 0

IInv == /\ TypeOK /\ ThreadsInv /\ Counts /\ KernelInv
        /\ OnePlace /\ Unmade /\ SioInv /\ NeedInv

-----------------------------------------------------------------------------
\* The sets of the model.

LEMMA UsersAreNumbers ==
  /\ Users = Regs /\ Users = Handles \cup Recvs /\ Handles \cap Recvs = {}
  /\ None \notin Regs /\ Handles \subseteq Users /\ Recvs \subseteq Users
  /\ \A h \in Users : h \in Nat /\ (h \in Handles <=> h <= MaxAdds) /\ (h \in Recvs <=> h > MaxAdds)
BY SizeAssumption, NoneAssumption DEF Users, Regs, Handles, Recvs

\* A registration, a handle or a task that is still to be made has a number of its own.
LEMMA NextNumbers ==
  ASSUME TypeOK, Counts
  PROVE  /\ added < app.adds => added + 1 \in Handles
         /\ recvd < app.recvs => MaxAdds + recvd + 1 \in Recvs
         /\ added < app.adds => made + 1 \in Regs
         /\ Pending = 1 => made + 1 \in Regs
<1>1. /\ app.adds \in 0..MaxAdds /\ app.recvs \in 0..MaxRecvs
      /\ added \in 0..MaxAdds /\ recvd \in 0..MaxRecvs /\ made \in 0..(MaxAdds + MaxRecvs)
      /\ MaxAdds \in Nat /\ MaxRecvs \in Nat
  BY AppsAssumption, SizeAssumption DEF TypeOK
<1>2. Pending \in {0, 1} /\ made + Pending <= added + recvd
  BY DEF Pending, Counts
<1> QED BY <1>1, <1>2 DEF Handles, Recvs, Regs

-----------------------------------------------------------------------------
\* Types, in groups.

NumberTypes ==
  /\ app \in Apps
  /\ sock \in 1..(app.reuse + 1) /\ owner \in 0..sock /\ recvd \in 0..MaxRecvs
  /\ data \in 0..app.data /\ arrived \in 0..app.data /\ writable \in 0..app.writable
  /\ made \in 0..(MaxAdds + MaxRecvs) /\ added \in 0..MaxAdds
SioTypes ==
  /\ ready \in [Regs -> BOOLEAN] /\ shut \in [Regs -> BOOLEAN]
  /\ tick \in [Regs -> Ticks] /\ tickR \in [Regs -> Ticks]
  /\ slot \in [Regs -> Users \cup {None}]
PollTypes ==
  /\ polled \in Regs \cup {None} /\ edge \in BOOLEAN
  /\ life \in [Regs -> {"none", "live", "parked", "freed"}]
  /\ needsRelease \in BOOLEAN
  /\ poll \in {"top", "release", "wait", "set", "wake", "call"}
  /\ token \in Regs \cup {None} /\ event \in BOOLEAN /\ woken \in Users \cup {None}
LoopTypes ==
  /\ siosLock \in Threads \cup {None}
  /\ current \in Regs \cup {None} /\ reader \in Handles \cup {None}
  /\ need \in [Recvs -> Nat] /\ stale \in BOOLEAN /\ spoiled \in BOOLEAN
UserTypes ==
  /\ active \in [Users -> BOOLEAN] /\ sio \in [Users -> Regs \cup {None}]
  /\ queued \in [Users -> Nat]
ThreadTypes ==
  /\ pc \in [Threads -> PCs] /\ on \in [Threads -> Users \cup {None}]
  /\ old \in [Threads -> Users \cup {None}]
  /\ attempts \in [Threads -> 0..Retries]

LEMMA TypeGroups ==
  /\ TypeOK <=> NumberTypes /\ SioTypes /\ PollTypes /\ LoopTypes /\ UserTypes /\ ThreadTypes
  /\ TypeOK' <=> /\ NumberTypes' /\ SioTypes' /\ PollTypes' /\ LoopTypes' /\ UserTypes'
                 /\ ThreadTypes'
BY DEF TypeOK, NumberTypes, SioTypes, PollTypes, LoopTypes, UserTypes, ThreadTypes

LEMMA TypeInit == Init => TypeOK
<1> SUFFICES ASSUME Init PROVE TypeOK
  OBVIOUS
<1>1. /\ app \in Apps /\ app.reuse \in Nat /\ app.data \in Nat /\ app.writable \in Nat
      /\ 0 \in Ticks /\ 0 \in 0..Retries /\ 0 \in 0..MaxAdds /\ 0 \in 0..MaxRecvs
      /\ 0 \in 0..(MaxAdds + MaxRecvs)
  BY AppsAssumption, SizeAssumption DEF Init, Ticks
<1>2. NumberTypes
  BY <1>1 DEF Init, NumberTypes
<1>3. SioTypes
  BY <1>1 DEF Init, SioTypes
<1>4. PollTypes
  BY <1>1 DEF Init, PollTypes
<1>5. LoopTypes /\ UserTypes /\ ThreadTypes
  BY <1>1 DEF Init, LoopTypes, UserTypes, ThreadTypes, PCs
<1> QED BY <1>2, <1>3, <1>4, <1>5, TypeGroups


LEMMA WakeTypes ==
  ASSUME TypeOK, NEW h \in Users \cup {None}, Wake(h)
  PROVE  active' \in [Users -> BOOLEAN] /\ queued' \in [Users -> Nat]
<1>1. active \in [Users -> BOOLEAN] /\ queued \in [Users -> Nat]
  BY DEF TypeOK
<1>2. CASE h = None \/ ~active[h]
  BY <1>1, <1>2 DEF Wake
<1>3. CASE h # None /\ active[h] /\ h \in Recvs
  <2>1. /\ h \in Users
        /\ queued' = [queued EXCEPT ![h] = @ + 1] /\ active' = [active EXCEPT ![h] = FALSE]
    BY <1>3 DEF Wake, SetResultUnlessDone, DispatchSoon, Cancel
  <2> QED BY <1>1, <2>1
<1>4. CASE h # None /\ active[h] /\ h \notin Recvs
  BY <1>1, <1>4 DEF Wake, DispatchSoon
<1> QED BY <1>2, <1>3, <1>4

LEMMA NumberTypesStep ==
  ASSUME TypeOK, Counts, Next
  PROVE  NumberTypes'
<1> /\ app.reuse \in Nat /\ app.data \in Nat /\ app.writable \in Nat
    /\ app.adds \in 0..MaxAdds /\ app.recvs \in 0..MaxRecvs /\ app.need \in Nat \ {0}
    /\ MaxAdds \in Nat /\ MaxRecvs \in Nat
  BY AppsAssumption, SizeAssumption DEF TypeOK
<1> USE TypeGroups
<1>1. ASSUME Arrive
      PROVE  NumberTypes'
  BY <1>1
     DEF NumberTypes, Counts, sockVars, regVars, Arrive
<1>2. ASSUME Writable
      PROVE  NumberTypes'
  BY <1>2
     DEF NumberTypes, sockVars, regVars, Writable
<1>3. ASSUME Recv
      PROVE  NumberTypes'
  BY <1>3
     DEF NumberTypes, sockVars, regVars, Recv
<1>4. ASSUME NEW a \in Threads, SockTry(a)
      PROVE  NumberTypes'
  BY <1>4
     DEF NumberTypes, sockVars, regVars, SockTry
<1>5. ASSUME Reopen
      PROVE  NumberTypes'
  BY <1>5
     DEF NumberTypes, regVars, Reopen
<1>6. ASSUME NEW a \in Threads, AddReader(a)
      PROVE  NumberTypes'
  BY <1>6
     DEF NumberTypes, Register, Pending, Entering, Counts, AddReader
<1>7. ASSUME NEW a \in Threads, Sio(a)
      PROVE  NumberTypes'
  BY <1>7
     DEF NumberTypes, DropRegistration, kernelVars, Sio
<1>8. ASSUME NEW a \in Threads, SioPin(a)
      PROVE  NumberTypes'
  BY <1>8
     DEF NumberTypes, Register, Pending, Entering, Counts, SioPin
<1>9. ASSUME NEW a \in Threads,
             RemoveReader(a) \/ ReleaseFd(a)
      PROVE  NumberTypes'
  BY <1>9
     DEF NumberTypes, DropRegistration, kernelVars, RemoveReader, ReleaseFd
<1>10. ASSUME PollTop \/ PollRelease \/ PollWait \/ PollSet \/ PollWake \/ PollCall
       PROVE  NumberTypes'
  BY <1>10
     DEF NumberTypes, kernelVars, sioVars, pollVars, regVars, sockVars, threadVars, PollTop,
         PollRelease, PollWait, PollSet, PollWake, PollCall
<1>11. ASSUME NEW r \in Recvs, CancelRecv(r)
       PROVE  NumberTypes'
  BY <1>11
     DEF NumberTypes, kernelVars, sioVars, pollVars, regVars, sockVars, threadVars, CancelRecv
<1>12. ASSUME NEW a \in Threads,
              RunEnd(a) \/ ArmCheck(a) \/ ArmLoad(a) \/ ArmStore(a) \/ ArmTick(a)
              \/ ArmKernel(a) \/ Clear(a) \/ CancelOld(a) \/ Deregister(a) \/ Shutdown(a)
              \/ ShutdownWake(a) \/ Park(a) \/ FlagRelease(a)
       PROVE  NumberTypes'
  BY <1>12
     DEF NumberTypes, kernelVars, sioVars, pollVars, regVars, sockVars, threadVars, RunEnd,
         ArmCheck, ArmLoad, ArmStore, ArmTick, ArmKernel, Clear, CancelOld, Deregister,
         Shutdown, ShutdownWake, Park, FlagRelease
<1>13. ASSUME NEW a \in Threads, NEW h \in Users, Dispatch(a, h)
       PROVE  NumberTypes'
  BY <1>13
     DEF NumberTypes, kernelVars, sioVars, pollVars, regVars, sockVars, threadVars, Dispatch
<1> QED
  BY <1>1, <1>2, <1>3, <1>4, <1>5, <1>6, <1>7, <1>8, <1>9, <1>10, <1>11, <1>12, <1>13
     DEF Next, PollStep, ThreadStep

LEMMA SioTypesStep ==
  ASSUME TypeOK, ThreadsInv, KernelInv, Next
  PROVE  SioTypes'
<1> USE TypeGroups
<1>1. ASSUME PollSet
      PROVE  SioTypes'
  BY <1>1, SizeAssumption
     DEF SioTypes, KernelInv, Ticks, PollSet
<1>2. ASSUME PollWake
      PROVE  SioTypes'
  BY <1>2
     DEF SioTypes, KernelInv, PollWake
<1>3. ASSUME NEW a \in Threads, ArmStore(a)
      PROVE  SioTypes'
  BY <1>3
     DEF SioTypes, UserTypes, ThreadTypes, ThreadsInv, ArmStore
<1>4. ASSUME NEW a \in Threads, ArmTick(a)
      PROVE  SioTypes'
  BY <1>4
     DEF SioTypes, UserTypes, ThreadTypes, ThreadsInv, ArmTick
<1>5. ASSUME NEW a \in Threads, Clear(a)
      PROVE  SioTypes'
  BY <1>5
     DEF SioTypes, UserTypes, ThreadTypes, ThreadsInv, Clear
<1>6. ASSUME NEW a \in Threads,
             Shutdown(a) \/ ShutdownWake(a)
      PROVE  SioTypes'
  BY <1>6
     DEF SioTypes, UserTypes, ThreadTypes, ThreadsInv, Shutdown, ShutdownWake
<1>7. ASSUME Arrive \/ Writable \/ Recv \/ Reopen \/ PollTop \/ PollRelease \/ PollWait
             \/ PollCall
      PROVE  SioTypes'
  BY <1>7
     DEF SioTypes, kernelVars, sioVars, pollVars, regVars, sockVars, threadVars, Arrive,
         Writable, Recv, Reopen, PollTop, PollRelease, PollWait, PollCall
<1>8. ASSUME NEW r \in Recvs, CancelRecv(r)
      PROVE  SioTypes'
  BY <1>8
     DEF SioTypes, kernelVars, sioVars, pollVars, regVars, sockVars, threadVars, CancelRecv
<1>9. ASSUME NEW a \in Threads,
             RunEnd(a) \/ ArmCheck(a) \/ ArmLoad(a) \/ ArmKernel(a) \/ SioPin(a) \/ SockTry(a)
             \/ CancelOld(a) \/ Deregister(a) \/ Park(a) \/ FlagRelease(a) \/ AddReader(a)
             \/ RemoveReader(a) \/ ReleaseFd(a) \/ Sio(a)
      PROVE  SioTypes'
  BY <1>9
     DEF SioTypes, kernelVars, sioVars, pollVars, regVars, sockVars, threadVars, RunEnd,
         ArmCheck, ArmLoad, ArmKernel, SioPin, SockTry, CancelOld, Deregister, Park,
         FlagRelease, AddReader, RemoveReader, ReleaseFd, Sio
<1>10. ASSUME NEW a \in Threads, NEW h \in Users, Dispatch(a, h)
       PROVE  SioTypes'
  BY <1>10
     DEF SioTypes, kernelVars, sioVars, pollVars, regVars, sockVars, threadVars, Dispatch
<1> QED
  BY <1>1, <1>2, <1>3, <1>4, <1>5, <1>6, <1>7, <1>8, <1>9, <1>10 DEF Next, PollStep, ThreadStep

LEMMA PollTypesStep ==
  ASSUME TypeOK, Counts, ThreadsInv, KernelInv, Next
  PROVE  PollTypes'
<1> USE TypeGroups
<1>1. ASSUME PollTop
      PROVE  PollTypes'
  BY <1>1
     DEF PollTypes, kernelVars, PollTop
<1>2. ASSUME PollRelease
      PROVE  PollTypes'
  BY <1>2
     DEF PollTypes, kernelVars, PollRelease
<1>3. ASSUME PollWait
      PROVE  PollTypes'
  <2>1. ReadinessFromEvent \in BOOLEAN
    BY SMT DEF ReadinessFromEvent
  <2> QED BY <1>3, <2>1 DEF PollTypes, regVars, PollWait
<1>4. ASSUME PollSet
      PROVE  PollTypes'
  BY <1>4
     DEF PollTypes, kernelVars, regVars, ReadinessFromEvent, PollSet
<1>5. ASSUME PollWake
      PROVE  PollTypes'
  BY <1>5
     DEF PollTypes, SioTypes, kernelVars, regVars, KernelInv, PollWake
<1>6. ASSUME PollCall
      PROVE  PollTypes'
  BY <1>6
     DEF PollTypes, kernelVars, regVars, PollCall
<1>7. ASSUME NEW a \in Threads, AddReader(a)
      PROVE  PollTypes'
  BY <1>7, NextNumbers
     DEF PollTypes, Register, pollVars, AddReader
<1>8. ASSUME NEW a \in Threads, SioPin(a)
      PROVE  PollTypes'
  BY <1>8, NextNumbers
     DEF PollTypes, Register, pollVars, Pending, Entering, SioPin
<1>9. ASSUME Arrive \/ Writable
      PROVE  PollTypes'
  BY <1>9
     DEF PollTypes, Edge, pollVars, regVars, Arrive, Writable
<1>10. ASSUME Reopen
       PROVE  PollTypes'
  BY <1>10
     DEF PollTypes, pollVars, regVars, Reopen
<1>11. ASSUME NEW a \in Threads, Deregister(a)
       PROVE  PollTypes'
  BY <1>11
     DEF PollTypes, pollVars, regVars, Deregister
<1>12. ASSUME NEW a \in Threads,
              Park(a) \/ FlagRelease(a)
       PROVE  PollTypes'
  BY <1>12
     DEF PollTypes, pollVars, kernelVars, Park, FlagRelease
<1>13. ASSUME NEW a \in Threads,
              RemoveReader(a) \/ ReleaseFd(a) \/ Sio(a)
       PROVE  PollTypes'
  BY <1>13
     DEF PollTypes, pollVars, kernelVars, RemoveReader, ReleaseFd, Sio
<1>14. ASSUME Recv
       PROVE  PollTypes'
  BY <1>14
     DEF PollTypes, kernelVars, sioVars, pollVars, regVars, sockVars, threadVars, Recv
<1>15. ASSUME NEW r \in Recvs, CancelRecv(r)
       PROVE  PollTypes'
  BY <1>15
     DEF PollTypes, kernelVars, sioVars, pollVars, regVars, sockVars, threadVars, CancelRecv
<1>16. ASSUME NEW a \in Threads,
              RunEnd(a) \/ ArmCheck(a) \/ ArmLoad(a) \/ ArmStore(a) \/ ArmTick(a)
              \/ ArmKernel(a) \/ SockTry(a) \/ Clear(a) \/ CancelOld(a) \/ Shutdown(a)
              \/ ShutdownWake(a)
       PROVE  PollTypes'
  BY <1>16
     DEF PollTypes, kernelVars, sioVars, pollVars, regVars, sockVars, threadVars, RunEnd,
         ArmCheck, ArmLoad, ArmStore, ArmTick, ArmKernel, SockTry, Clear, CancelOld, Shutdown,
         ShutdownWake
<1>17. ASSUME NEW a \in Threads, NEW h \in Users, Dispatch(a, h)
       PROVE  PollTypes'
  BY <1>17
     DEF PollTypes, kernelVars, sioVars, pollVars, regVars, sockVars, threadVars, Dispatch
<1> QED BY <1>1, <1>2, <1>3, <1>4, <1>5, <1>6, <1>7, <1>8, <1>9, <1>10, <1>11, <1>12, <1>13,
           <1>14, <1>15, <1>16, <1>17 DEF Next, PollStep, ThreadStep

LEMMA LoopTypesStep ==
  ASSUME TypeOK, Counts, ThreadsInv, NeedInv, Next
  PROVE  LoopTypes'
<1> /\ app.reuse \in Nat /\ app.data \in Nat /\ app.writable \in Nat
    /\ app.adds \in 0..MaxAdds /\ app.recvs \in 0..MaxRecvs /\ app.need \in Nat \ {0}
    /\ MaxAdds \in Nat /\ MaxRecvs \in Nat
  BY AppsAssumption, SizeAssumption DEF TypeOK
<1> USE TypeGroups
<1>1. ASSUME PollTop \/ PollRelease
      PROVE  LoopTypes'
  BY <1>1
     DEF LoopTypes, sockVars, PollTop, PollRelease
<1>2. ASSUME PollSet
      PROVE  LoopTypes'
  BY <1>2
     DEF LoopTypes, regVars, sockVars, PollSet
<1>3. ASSUME NEW a \in Threads,
             ArmStore(a) \/ ArmTick(a) \/ Clear(a)
      PROVE  LoopTypes'
  BY <1>3
     DEF LoopTypes, regVars, sockVars, ArmStore, ArmTick, Clear
<1>4. ASSUME NEW a \in Threads, AddReader(a)
      PROVE  LoopTypes'
  BY <1>4, NextNumbers
     DEF LoopTypes, AddReader
<1>5. ASSUME NEW a \in Threads, SioPin(a)
      PROVE  LoopTypes'
  BY <1>5, NextNumbers
     DEF LoopTypes, Pending, Entering, SioPin
<1>6. ASSUME NEW a \in Threads, SockTry(a)
      PROVE  LoopTypes'
  <2>1. on[a] \in Recvs /\ Busy(on[a])
    BY <1>6 DEF SockTry, ThreadsInv, Busy, Where, ArmPCs
  <2>2. need[on[a]] > 0
    BY <2>1 DEF NeedInv
  <2> QED BY <1>6, <2>1, <2>2 DEF LoopTypes, regVars, SockTry
<1>7. ASSUME NEW a \in Threads, RemoveReader(a)
      PROVE  LoopTypes'
  BY <1>7
     DEF LoopTypes, DropRegistration, RemoveReader
<1>8. ASSUME NEW a \in Threads, ReleaseFd(a)
      PROVE  LoopTypes'
  BY <1>8
     DEF LoopTypes, DropRegistration, ReleaseFd
<1>9. ASSUME NEW a \in Threads, Sio(a)
      PROVE  LoopTypes'
  BY <1>9, NextNumbers
     DEF LoopTypes, DropRegistration, Sio
<1>10. ASSUME NEW a \in Threads,
              Park(a) \/ FlagRelease(a)
       PROVE  LoopTypes'
  BY <1>10
     DEF LoopTypes, sockVars, Park, FlagRelease
<1>11. ASSUME Reopen
       PROVE  LoopTypes'
  BY <1>11
     DEF LoopTypes, regVars, Reopen
<1>12. ASSUME NEW r \in Recvs, CancelRecv(r)
       PROVE  LoopTypes'
  BY <1>12
     DEF LoopTypes, regVars, CancelRecv
<1>13. ASSUME Arrive \/ Writable \/ Recv \/ PollWait \/ PollWake \/ PollCall
       PROVE  LoopTypes'
  BY <1>13
     DEF LoopTypes, kernelVars, sioVars, pollVars, regVars, sockVars, threadVars, Arrive,
         Writable, Recv, PollWait, PollWake, PollCall
<1>14. ASSUME NEW a \in Threads,
              RunEnd(a) \/ ArmCheck(a) \/ ArmLoad(a) \/ ArmKernel(a) \/ CancelOld(a)
              \/ Deregister(a) \/ Shutdown(a) \/ ShutdownWake(a)
       PROVE  LoopTypes'
  BY <1>14
     DEF LoopTypes, kernelVars, sioVars, pollVars, regVars, sockVars, threadVars, RunEnd,
         ArmCheck, ArmLoad, ArmKernel, CancelOld, Deregister, Shutdown, ShutdownWake
<1>15. ASSUME NEW a \in Threads, NEW h \in Users, Dispatch(a, h)
       PROVE  LoopTypes'
  BY <1>15
     DEF LoopTypes, kernelVars, sioVars, pollVars, regVars, sockVars, threadVars, Dispatch
<1> QED BY <1>1, <1>2, <1>3, <1>4, <1>5, <1>6, <1>7, <1>8, <1>9, <1>10, <1>11, <1>12, <1>13,
           <1>14, <1>15 DEF Next, PollStep, ThreadStep

LEMMA UserTypesStep ==
  ASSUME TypeOK, Counts, ThreadsInv, Next
  PROVE  UserTypes'
<1> USE TypeGroups
<1>1. ASSUME PollTop \/ PollRelease
      PROVE  UserTypes'
  BY <1>1
     DEF UserTypes, PollTop, PollRelease
<1>2. ASSUME PollCall
      PROVE  UserTypes'
  BY <1>2, WakeTypes
     DEF UserTypes, PollTypes, regVars, PollCall
<1>3. ASSUME NEW a \in Threads, ShutdownWake(a)
      PROVE  UserTypes'
  <2>1. slot[on[a]] \in Users \cup {None}
    BY <1>3 DEF ShutdownWake, ThreadsInv, DropPCs, SioTypes
  <2> QED BY <1>3, <2>1, WakeTypes DEF UserTypes, regVars, ShutdownWake
<1>4. ASSUME NEW a \in Threads, NEW h \in Users, Dispatch(a, h)
      PROVE  UserTypes'
  <2>1. queued[h] - 1 \in Nat
    BY <1>4 DEF Dispatch, UserTypes
  <2>2. queued' \in [Users -> Nat]
    BY <1>4, <2>1 DEF Dispatch, UserTypes
  <2>3. active' \in [Users -> BOOLEAN]
    BY <1>4 DEF Dispatch, UserTypes
  <2> QED BY <1>4, <2>2, <2>3 DEF Dispatch, UserTypes, regVars
<1>5. ASSUME NEW a \in Threads, AddReader(a)
      PROVE  UserTypes'
  BY <1>5, NextNumbers, UsersAreNumbers
     DEF UserTypes, LoopTypes, AddReader
<1>6. ASSUME NEW a \in Threads, SioPin(a)
      PROVE  UserTypes'
  BY <1>6, NextNumbers, UsersAreNumbers
     DEF UserTypes, LoopTypes, Pending, Entering, SioPin
<1>7. ASSUME NEW a \in Threads, ArmKernel(a)
      PROVE  UserTypes'
  BY <1>7
     DEF UserTypes, DispatchSoon, regVars, ArmKernel
<1>8. ASSUME NEW a \in Threads, SockTry(a)
      PROVE  UserTypes'
  <2>1. (need[on[a]] > 1) \in BOOLEAN
    BY SMT
  <2> QED BY <1>8, <2>1 DEF UserTypes, regVars, SockTry
<1>9. ASSUME NEW r \in Recvs, CancelRecv(r)
      PROVE  UserTypes'
  BY <1>9
     DEF UserTypes, regVars, Cancel, CancelRecv
<1>10. ASSUME NEW a \in Threads, CancelOld(a)
       PROVE  UserTypes'
  BY <1>10
     DEF UserTypes, regVars, Cancel, CancelOld
<1>11. ASSUME NEW a \in Threads,
              RemoveReader(a) \/ ReleaseFd(a)
       PROVE  UserTypes'
  BY <1>11
     DEF UserTypes, Cancel, RemoveReader, ReleaseFd
<1>12. ASSUME NEW a \in Threads, Sio(a)
       PROVE  UserTypes'
  BY <1>12
     DEF UserTypes, Sio
<1>13. ASSUME NEW a \in Threads,
              Park(a) \/ FlagRelease(a)
       PROVE  UserTypes'
  BY <1>13
     DEF UserTypes, Park, FlagRelease
<1>14. ASSUME Arrive \/ Writable \/ Recv \/ Reopen \/ PollWait \/ PollSet \/ PollWake
       PROVE  UserTypes'
  BY <1>14
     DEF UserTypes, kernelVars, sioVars, pollVars, regVars, sockVars, threadVars, Arrive,
         Writable, Recv, Reopen, PollWait, PollSet, PollWake
<1>15. ASSUME NEW a \in Threads,
              RunEnd(a) \/ ArmCheck(a) \/ ArmLoad(a) \/ ArmStore(a) \/ ArmTick(a) \/ Clear(a)
              \/ Deregister(a) \/ Shutdown(a)
       PROVE  UserTypes'
  BY <1>15
     DEF UserTypes, kernelVars, sioVars, pollVars, regVars, sockVars, threadVars, RunEnd,
         ArmCheck, ArmLoad, ArmStore, ArmTick, Clear, Deregister, Shutdown
<1> QED BY <1>1, <1>2, <1>3, <1>4, <1>5, <1>6, <1>7, <1>8, <1>9, <1>10, <1>11, <1>12, <1>13,
           <1>14, <1>15 DEF Next, PollStep, ThreadStep

LEMMA ThreadTypesStep ==
  ASSUME TypeOK, Counts, ThreadsInv, Next
  PROVE  ThreadTypes'
<1> USE SizeAssumption, TypeGroups DEF PCs, ArmPCs, DropPCs
<1>1. ASSUME NEW a \in Threads, AddReader(a)
      PROVE  ThreadTypes'
  BY <1>1, NextNumbers, UsersAreNumbers
     DEF ThreadTypes, LoopTypes, Enter, Go, Idle, AddReader
<1>2. ASSUME NEW a \in Threads,
             RemoveReader(a) \/ ReleaseFd(a)
      PROVE  ThreadTypes'
  BY <1>2, UsersAreNumbers
     DEF ThreadTypes, LoopTypes, DropRegistration, Enter, Go, Idle, RemoveReader, ReleaseFd
<1>3. ASSUME NEW a \in Threads, Sio(a)
      PROVE  ThreadTypes'
  BY <1>3, NextNumbers, UsersAreNumbers
     DEF ThreadTypes, LoopTypes, DropRegistration, Enter, Go, Idle, Sio
<1>4. ASSUME NEW a \in Threads, SioPin(a)
      PROVE  ThreadTypes'
  BY <1>4
     DEF ThreadTypes, Enter, Go, Idle, SioPin
<1>5. ASSUME NEW a \in Threads, NEW h \in Users, Dispatch(a, h)
      PROVE  ThreadTypes'
  BY <1>5
     DEF ThreadTypes, Enter, Go, Idle, Dispatch
<1>6. ASSUME NEW a \in Threads, ArmKernel(a)
      PROVE  ThreadTypes'
  BY <1>6
     DEF ThreadTypes, Enter, Go, Idle, ArmKernel
<1>7. ASSUME NEW a \in Threads,
             RunEnd(a) \/ ArmCheck(a) \/ ArmLoad(a) \/ ArmStore(a)
      PROVE  ThreadTypes'
  BY <1>7
     DEF ThreadTypes, Enter, Go, Idle, RunEnd, ArmCheck, ArmLoad, ArmStore
<1>8. ASSUME NEW a \in Threads,
             ArmTick(a) \/ SockTry(a) \/ Clear(a)
      PROVE  ThreadTypes'
  BY <1>8
     DEF ThreadTypes, Enter, Go, Idle, ArmTick, SockTry, Clear
<1>9. ASSUME NEW a \in Threads,
             CancelOld(a) \/ Deregister(a) \/ Shutdown(a) \/ ShutdownWake(a) \/ Park(a)
      PROVE  ThreadTypes'
  BY <1>9
     DEF ThreadTypes, Enter, Go, Idle, CancelOld, Deregister, Shutdown, ShutdownWake, Park
<1>10. ASSUME NEW a \in Threads, FlagRelease(a)
       PROVE  ThreadTypes'
  BY <1>10
     DEF ThreadTypes, Enter, Go, Idle, FlagRelease
<1>11. ASSUME Arrive \/ Writable \/ Recv \/ Reopen \/ PollTop \/ PollRelease \/ PollWait
              \/ PollSet \/ PollWake \/ PollCall
       PROVE  ThreadTypes'
  BY <1>11
     DEF ThreadTypes, threadVars, Arrive, Writable, Recv, Reopen, PollTop, PollRelease,
         PollWait, PollSet, PollWake, PollCall
<1>12. ASSUME NEW r \in Recvs, CancelRecv(r)
       PROVE  ThreadTypes'
  BY <1>12
     DEF ThreadTypes, threadVars, CancelRecv
<1> QED
  BY <1>1, <1>2, <1>3, <1>4, <1>5, <1>6, <1>7, <1>8, <1>9, <1>10, <1>11, <1>12
     DEF Next, PollStep, ThreadStep

LEMMA ThreadsStep ==
  ASSUME TypeOK, Counts, ThreadsInv, Next
  PROVE  ThreadsInv'
<1> USE TypeGroups, UsersAreNumbers, ThreadsAssumption DEF PCs, ArmPCs, DropPCs, ThreadTypes
<1>1. ASSUME NEW a \in Threads, AddReader(a)
      PROVE  ThreadsInv'
  BY <1>1, NextNumbers
     DEF LoopTypes, ThreadsInv, regVars, Enter, Go, Idle, AddReader
<1>2. ASSUME NEW a \in Threads, RemoveReader(a)
      PROVE  ThreadsInv'
  BY <1>2
     DEF DropRegistration, LoopTypes, Counts, ThreadsInv, regVars, Enter, Go, Idle, RemoveReader
<1>3. ASSUME NEW a \in Threads, ReleaseFd(a)
      PROVE  ThreadsInv'
  BY <1>3
     DEF DropRegistration, LoopTypes, Counts, ThreadsInv, regVars, Enter, Go, Idle, ReleaseFd
<1>4. ASSUME NEW a \in Threads, Sio(a)
      PROVE  ThreadsInv'
  BY <1>4, NextNumbers
     DEF DropRegistration, LoopTypes, ThreadsInv, regVars, Enter, Go, Idle, Sio
<1>5. ASSUME NEW a \in Threads, SioPin(a)
      PROVE  ThreadsInv'
  BY <1>5
     DEF ThreadsInv, regVars, Enter, Go, Idle, SioPin
<1>6. ASSUME NEW a \in Threads, NEW h \in Users, Dispatch(a, h)
      PROVE  ThreadsInv'
  BY <1>6
     DEF ThreadsInv, regVars, Enter, Go, Idle, Dispatch
<1>7. ASSUME NEW a \in Threads, ArmKernel(a)
      PROVE  ThreadsInv'
  BY <1>7
     DEF ThreadsInv, regVars, Enter, Go, Idle, ArmKernel
<1>8. ASSUME NEW a \in Threads,
             RunEnd(a) \/ ArmCheck(a) \/ ArmLoad(a) \/ ArmStore(a)
      PROVE  ThreadsInv'
  BY <1>8
     DEF ThreadsInv, regVars, Enter, Go, Idle, RunEnd, ArmCheck, ArmLoad, ArmStore
<1>9. ASSUME NEW a \in Threads, ArmTick(a)
      PROVE  ThreadsInv'
  BY <1>9
     DEF ThreadsInv, regVars, Enter, Go, Idle, ArmTick
<1>10. ASSUME NEW a \in Threads, SockTry(a)
       PROVE  ThreadsInv'
  BY <1>10
     DEF ThreadsInv, regVars, Enter, Go, Idle, SockTry
<1>11. ASSUME NEW a \in Threads, Clear(a)
       PROVE  ThreadsInv'
  BY <1>11
     DEF ThreadsInv, regVars, Enter, Go, Idle, Clear
<1>12. ASSUME NEW a \in Threads, CancelOld(a)
       PROVE  ThreadsInv'
  BY <1>12
     DEF ThreadsInv, regVars, Enter, Go, Idle, CancelOld
<1>13. ASSUME NEW a \in Threads,
              Deregister(a) \/ Shutdown(a) \/ ShutdownWake(a) \/ Park(a)
       PROVE  ThreadsInv'
  BY <1>13
     DEF ThreadsInv, regVars, Enter, Go, Idle, Deregister, Shutdown, ShutdownWake, Park
<1>14. ASSUME NEW a \in Threads, FlagRelease(a)
       PROVE  ThreadsInv'
  BY <1>14
     DEF ThreadsInv, regVars, Enter, Go, Idle, FlagRelease
<1>15. ASSUME Arrive \/ Writable \/ Recv \/ Reopen \/ PollTop \/ PollRelease \/ PollWait
              \/ PollSet \/ PollWake \/ PollCall
       PROVE  ThreadsInv'
  BY <1>15
     DEF ThreadsInv, kernelVars, sioVars, pollVars, regVars, sockVars, threadVars, Arrive,
         Writable, Recv, Reopen, PollTop, PollRelease, PollWait, PollSet, PollWake, PollCall
<1>16. ASSUME NEW r \in Recvs, CancelRecv(r)
       PROVE  ThreadsInv'
  BY <1>16
     DEF ThreadsInv, kernelVars, sioVars, pollVars, regVars, sockVars, threadVars, CancelRecv
<1> QED BY <1>1, <1>2, <1>3, <1>4, <1>5, <1>6, <1>7, <1>8, <1>9, <1>10, <1>11, <1>12, <1>13,
           <1>14, <1>15, <1>16 DEF Next, PollStep, ThreadStep

LEMMA PendingKept ==
  ASSUME \A a \in Threads : Entering(a)' <=> Entering(a)
  PROVE  Pending' = Pending
BY DEF Pending

LEMMA PendingFree ==
  ASSUME ThreadsInv
  PROVE  siosLock = None => Pending = 0
BY ThreadsAssumption DEF ThreadsInv, Pending, Entering

LEMMA DataStep ==
  ASSUME TypeOK, Counts, Next
  PROVE  data' <= arrived'
<1> USE TypeGroups
<1>t. /\ data \in Nat /\ arrived \in Nat /\ made \in Nat /\ added \in Nat /\ recvd \in Nat
      /\ Pending \in 0..1 /\ Pending' \in 0..1
  BY AppsAssumption, SizeAssumption DEF NumberTypes, Pending
<1>1. ASSUME Arrive \/ Recv \/ Reopen
      PROVE  data' <= arrived'
  BY <1>1, <1>t
     DEF Counts, Arrive, Recv, Reopen
<1>2. ASSUME NEW a \in Threads, SockTry(a)
      PROVE  data' <= arrived'
  BY <1>2, <1>t
     DEF Counts, SockTry
<1>3. ASSUME Writable \/ PollTop \/ PollRelease \/ PollWait \/ PollSet \/ PollWake \/ PollCall
      PROVE  data' <= arrived'
  BY <1>3, <1>t
     DEF Counts, kernelVars, Writable, PollTop, PollRelease, PollWait, PollSet, PollWake,
         PollCall
<1>4. ASSUME NEW r \in Recvs, CancelRecv(r)
      PROVE  data' <= arrived'
  BY <1>4, <1>t
     DEF Counts, kernelVars, CancelRecv
<1>5. ASSUME NEW a \in Threads,
             RunEnd(a) \/ ArmCheck(a) \/ ArmLoad(a) \/ ArmStore(a) \/ ArmTick(a) \/ ArmKernel(a)
             \/ SioPin(a) \/ Clear(a) \/ CancelOld(a) \/ Deregister(a) \/ Shutdown(a)
             \/ ShutdownWake(a) \/ Park(a) \/ FlagRelease(a) \/ AddReader(a) \/ RemoveReader(a)
             \/ ReleaseFd(a) \/ Sio(a)
      PROVE  data' <= arrived'
  BY <1>5, <1>t
     DEF Counts, kernelVars, RunEnd, ArmCheck, ArmLoad, ArmStore, ArmTick, ArmKernel, SioPin,
         Clear, CancelOld, Deregister, Shutdown, ShutdownWake, Park, FlagRelease, AddReader,
         RemoveReader, ReleaseFd, Sio
<1>6. ASSUME NEW a \in Threads, NEW h \in Users, Dispatch(a, h)
      PROVE  data' <= arrived'
  BY <1>6, <1>t
     DEF Counts, kernelVars, Dispatch
<1> QED BY <1>1, <1>2, <1>3, <1>4, <1>5, <1>6 DEF Next, PollStep, ThreadStep

LEMMA SumStep ==
  ASSUME TypeOK, ThreadsInv, Counts, Next, ThreadsInv'
  PROVE  made' + Pending' <= added' + recvd'
<1> USE TypeGroups
<1>t. /\ data \in Nat /\ arrived \in Nat /\ made \in Nat /\ added \in Nat /\ recvd \in Nat
      /\ Pending \in 0..1 /\ Pending' \in 0..1
  BY AppsAssumption, SizeAssumption DEF NumberTypes, Pending
<1>1. ASSUME NEW a \in Threads, AddReader(a)
      PROVE  made' + Pending' <= added' + recvd'
  <2>1. siosLock = None /\ siosLock' = None
    BY <1>1 DEF AddReader
  <2>2. Pending = 0 /\ Pending' = 0
    BY <2>1, ThreadsAssumption DEF ThreadsInv, Pending, Entering
  <2> QED BY <1>1, <2>2, <1>t DEF Counts, AddReader
<1>2. ASSUME NEW a \in Threads, SioPin(a)
      PROVE  made' + Pending' <= added' + recvd'
  <2>1. siosLock' = None /\ Entering(a)
    BY <1>2 DEF SioPin, Entering
  <2>2. Pending = 1 /\ Pending' = 0
    BY <2>1, ThreadsAssumption DEF ThreadsInv, Pending, Entering
  <2> QED BY <1>2, <2>2, <1>t DEF Counts, SioPin
<1>3. ASSUME NEW a \in Threads, Sio(a)
      PROVE  made' + Pending' <= added' + recvd'
  <2>1. Pending = 0
    BY <1>3, PendingFree DEF Sio
  <2>2. made' = made /\ added' = added /\ recvd' = recvd + 1
    BY <1>3 DEF Sio
  <2>3. made <= added + recvd
    BY <2>1, <1>t DEF Counts
  <2>4. PICK p \in 0..1 : p = Pending'
    BY <1>t
  <2>5. made + p <= added + (recvd + 1)
    BY <2>3, <1>t
  <2> QED BY <2>2, <2>4, <2>5
<1>4. ASSUME NEW a \in Threads,
             RemoveReader(a) \/ ReleaseFd(a)
      PROVE  made' + Pending' <= added' + recvd'
  BY <1>4, <1>t, PendingKept
     DEF Counts, DropRegistration, ThreadsInv, Entering, threadVars, PCs, ArmPCs, DropPCs,
         ThreadTypes, Enter, Go, Idle, RemoveReader, ReleaseFd
<1>5. ASSUME NEW a \in Threads, FlagRelease(a)
      PROVE  made' + Pending' <= added' + recvd'
  BY <1>5, <1>t, PendingKept
     DEF Counts, sockVars, ThreadsInv, Entering, threadVars, PCs, ArmPCs, DropPCs, ThreadTypes,
         Enter, Go, Idle, FlagRelease
<1>6. ASSUME NEW a \in Threads, NEW h \in Users, Dispatch(a, h)
      PROVE  made' + Pending' <= added' + recvd'
  BY <1>6, <1>t, PendingKept
     DEF Counts, regVars, sockVars, ThreadsInv, Entering, threadVars, PCs, ArmPCs, DropPCs,
         ThreadTypes, Enter, Go, Idle, Dispatch
<1>7. ASSUME NEW a \in Threads, ArmKernel(a)
      PROVE  made' + Pending' <= added' + recvd'
  BY <1>7, <1>t, PendingKept
     DEF Counts, regVars, sockVars, ThreadsInv, Entering, threadVars, PCs, ArmPCs, DropPCs,
         ThreadTypes, Enter, Go, Idle, ArmKernel
<1>8. ASSUME NEW a \in Threads,
             ArmTick(a) \/ SockTry(a) \/ Clear(a)
      PROVE  made' + Pending' <= added' + recvd'
  BY <1>8, <1>t, PendingKept
     DEF Counts, regVars, sockVars, ThreadsInv, Entering, threadVars, PCs, ArmPCs, DropPCs,
         ThreadTypes, Enter, Go, Idle, ArmTick, SockTry, Clear
<1>9. ASSUME NEW a \in Threads, CancelOld(a)
      PROVE  made' + Pending' <= added' + recvd'
  BY <1>9, <1>t, PendingKept
     DEF Counts, regVars, sockVars, ThreadsInv, Entering, threadVars, PCs, ArmPCs, DropPCs,
         ThreadTypes, Enter, Go, Idle, CancelOld
<1>10. ASSUME NEW a \in Threads,
              Deregister(a) \/ Shutdown(a) \/ ShutdownWake(a) \/ Park(a)
       PROVE  made' + Pending' <= added' + recvd'
  BY <1>10, <1>t, PendingKept
     DEF Counts, regVars, sockVars, ThreadsInv, Entering, threadVars, PCs, ArmPCs, DropPCs,
         ThreadTypes, Enter, Go, Idle, Deregister, Shutdown, ShutdownWake, Park
<1>11. ASSUME NEW a \in Threads,
              RunEnd(a) \/ ArmCheck(a) \/ ArmLoad(a) \/ ArmStore(a)
       PROVE  made' + Pending' <= added' + recvd'
  BY <1>11, <1>t, PendingKept
     DEF Counts, regVars, sockVars, ThreadsInv, Entering, threadVars, PCs, ArmPCs, DropPCs,
         ThreadTypes, Enter, Go, Idle, RunEnd, ArmCheck, ArmLoad, ArmStore
<1>12. ASSUME Arrive \/ Writable \/ Recv \/ Reopen \/ PollTop \/ PollRelease \/ PollWait
              \/ PollSet \/ PollWake \/ PollCall
       PROVE  made' + Pending' <= added' + recvd'
  BY <1>12, <1>t, PendingKept
     DEF Entering, Counts, kernelVars, sioVars, pollVars, regVars, sockVars, threadVars, Arrive,
         Writable, Recv, Reopen, PollTop, PollRelease, PollWait, PollSet, PollWake, PollCall
<1>13. ASSUME NEW r \in Recvs, CancelRecv(r)
       PROVE  made' + Pending' <= added' + recvd'
  BY <1>13, <1>t, PendingKept
     DEF Entering, Counts, kernelVars, sioVars, pollVars, regVars, sockVars, threadVars,
         CancelRecv
<1> QED
  BY <1>1, <1>2, <1>3, <1>4, <1>5, <1>6, <1>7, <1>8, <1>9, <1>10, <1>11, <1>12, <1>13
     DEF Next, PollStep, ThreadStep

LEMMA ReaderStep ==
  ASSUME TypeOK, Counts, ThreadsInv, Next
  PROVE  reader' # None => current' # None
<1> USE TypeGroups
<1>1. ASSUME NEW a \in Threads, AddReader(a)
      PROVE  reader' # None => current' # None
  BY <1>1, NextNumbers, UsersAreNumbers
     DEF Counts, AddReader
<1>2. ASSUME NEW a \in Threads, SioPin(a)
      PROVE  reader' # None => current' # None
  BY <1>2, NextNumbers, UsersAreNumbers
     DEF Counts, Pending, Entering, SioPin
<1>3. ASSUME NEW a \in Threads, RemoveReader(a)
      PROVE  reader' # None => current' # None
  BY <1>3
     DEF Counts, RemoveReader
<1>4. ASSUME NEW a \in Threads, ReleaseFd(a)
      PROVE  reader' # None => current' # None
  BY <1>4
     DEF Counts, ReleaseFd
<1>5. ASSUME NEW a \in Threads, Sio(a)
      PROVE  reader' # None => current' # None
  BY <1>5
     DEF Counts, Unread, Sio
<1>6. ASSUME Arrive \/ Writable \/ Recv \/ Reopen \/ PollTop \/ PollRelease \/ PollWait
             \/ PollSet \/ PollWake \/ PollCall
      PROVE  reader' # None => current' # None
  BY <1>6
     DEF Counts, kernelVars, sioVars, pollVars, regVars, sockVars, threadVars, Arrive, Writable,
         Recv, Reopen, PollTop, PollRelease, PollWait, PollSet, PollWake, PollCall
<1>7. ASSUME NEW r \in Recvs, CancelRecv(r)
      PROVE  reader' # None => current' # None
  BY <1>7
     DEF Counts, kernelVars, sioVars, pollVars, regVars, sockVars, threadVars, CancelRecv
<1>8. ASSUME NEW a \in Threads,
             RunEnd(a) \/ ArmCheck(a) \/ ArmLoad(a) \/ ArmStore(a) \/ ArmTick(a) \/ ArmKernel(a)
             \/ SockTry(a) \/ Clear(a) \/ CancelOld(a) \/ Deregister(a) \/ Shutdown(a)
             \/ ShutdownWake(a) \/ Park(a) \/ FlagRelease(a)
      PROVE  reader' # None => current' # None
  BY <1>8
     DEF Counts, kernelVars, sioVars, pollVars, regVars, sockVars, threadVars, RunEnd, ArmCheck,
         ArmLoad, ArmStore, ArmTick, ArmKernel, SockTry, Clear, CancelOld, Deregister, Shutdown,
         ShutdownWake, Park, FlagRelease
<1>9. ASSUME NEW a \in Threads, NEW h \in Users, Dispatch(a, h)
      PROVE  reader' # None => current' # None
  BY <1>9
     DEF Counts, kernelVars, sioVars, pollVars, regVars, sockVars, threadVars, Dispatch
<1> QED BY <1>1, <1>2, <1>3, <1>4, <1>5, <1>6, <1>7, <1>8, <1>9 DEF Next, PollStep, ThreadStep

LEMMA CountsStep ==
  ASSUME TypeOK, ThreadsInv, Counts, Next, ThreadsInv'
  PROVE  Counts'
BY DataStep, SumStep, ReaderStep DEF Counts

LEMMA KernelStep ==
  ASSUME TypeOK, ThreadsInv, Counts, KernelInv, Next
  PROVE  KernelInv'
<1> USE TypeGroups, UsersAreNumbers, ThreadsAssumption DEF PCs, ArmPCs, DropPCs
<1>1. ASSUME Arrive \/ Writable
      PROVE  KernelInv'
  BY <1>1
     DEF Edge, pollVars, regVars, threadVars, KernelInv, PollTypes, Arrive, Writable
<1>2. ASSUME Reopen
      PROVE  KernelInv'
  BY <1>2
     DEF pollVars, regVars, threadVars, KernelInv, PollTypes, Reopen
<1>3. ASSUME PollTop
      PROVE  KernelInv'
  BY <1>3
     DEF kernelVars, threadVars, KernelInv, PollTypes, PollTop
<1>4. ASSUME PollRelease
      PROVE  KernelInv'
  BY <1>4
     DEF kernelVars, threadVars, KernelInv, PollTypes, PollRelease
<1>5. ASSUME PollWait
      PROVE  KernelInv'
  BY <1>5
     DEF regVars, threadVars, KernelInv, PollTypes, PollWait
<1>6. ASSUME PollSet \/ PollWake \/ PollCall
      PROVE  KernelInv'
  BY <1>6
     DEF kernelVars, regVars, threadVars, KernelInv, PollTypes, PollSet, PollWake, PollCall
<1>7. ASSUME NEW a \in Threads, AddReader(a)
      PROVE  KernelInv'
  BY <1>7, NextNumbers
     DEF Register, pollVars, ThreadsInv, ThreadTypes, LoopTypes, Enter, Go, Idle, KernelInv,
         PollTypes, AddReader
<1>8. ASSUME NEW a \in Threads, SioPin(a)
      PROVE  KernelInv'
  BY <1>8, NextNumbers
     DEF Register, pollVars, ThreadsInv, ThreadTypes, LoopTypes, Pending, Entering, Enter, Go,
         Idle, KernelInv, PollTypes, SioPin
<1>9. ASSUME NEW a \in Threads, Deregister(a)
      PROVE  KernelInv'
  BY <1>9
     DEF pollVars, regVars, ThreadTypes, Enter, Go, Idle, KernelInv, PollTypes, Deregister
<1>10. ASSUME NEW a \in Threads, Shutdown(a)
       PROVE  KernelInv'
  BY <1>10
     DEF kernelVars, pollVars, regVars, ThreadTypes, Enter, Go, Idle, KernelInv, PollTypes,
         Shutdown
<1>11. ASSUME NEW a \in Threads, ShutdownWake(a)
       PROVE  KernelInv'
  BY <1>11
     DEF kernelVars, pollVars, regVars, ThreadTypes, Enter, Go, Idle, KernelInv, PollTypes,
         ShutdownWake
<1>12. ASSUME NEW a \in Threads, Park(a)
       PROVE  KernelInv'
  BY <1>12
     DEF kernelVars, pollVars, ThreadTypes, ThreadsInv, Enter, Go, Idle, KernelInv, PollTypes,
         Park
<1>13. ASSUME NEW a \in Threads, FlagRelease(a)
       PROVE  KernelInv'
  BY <1>13
     DEF kernelVars, pollVars, ThreadTypes, Enter, Go, Idle, KernelInv, PollTypes, FlagRelease
<1>14. ASSUME NEW a \in Threads,
              RemoveReader(a) \/ ReleaseFd(a) \/ Sio(a)
       PROVE  KernelInv'
  BY <1>14
     DEF kernelVars, pollVars, ThreadTypes, DropRegistration, Enter, Go, Idle, KernelInv,
         PollTypes, RemoveReader, ReleaseFd, Sio
<1>15. ASSUME NEW a \in Threads, NEW h \in Users, Dispatch(a, h)
       PROVE  KernelInv'
  BY <1>15
     DEF kernelVars, pollVars, regVars, ThreadTypes, Enter, Go, Idle, KernelInv, PollTypes,
         Dispatch
<1>16. ASSUME NEW a \in Threads,
              RunEnd(a) \/ ArmCheck(a) \/ ArmLoad(a) \/ ArmStore(a)
       PROVE  KernelInv'
  BY <1>16
     DEF kernelVars, pollVars, regVars, ThreadTypes, Enter, Go, Idle, KernelInv, PollTypes,
         RunEnd, ArmCheck, ArmLoad, ArmStore
<1>17. ASSUME NEW a \in Threads,
              ArmTick(a) \/ ArmKernel(a) \/ SockTry(a) \/ Clear(a) \/ CancelOld(a)
       PROVE  KernelInv'
  BY <1>17
     DEF kernelVars, pollVars, regVars, ThreadTypes, Enter, Go, Idle, KernelInv, PollTypes,
         ArmTick, ArmKernel, SockTry, Clear, CancelOld
<1>18. ASSUME Recv
       PROVE  KernelInv'
  BY <1>18
     DEF KernelInv, PollTypes, kernelVars, sioVars, pollVars, regVars, sockVars, threadVars,
         Recv
<1>19. ASSUME NEW r \in Recvs, CancelRecv(r)
       PROVE  KernelInv'
  BY <1>19
     DEF KernelInv, PollTypes, kernelVars, sioVars, pollVars, regVars, sockVars, threadVars,
         CancelRecv
<1> QED BY <1>1, <1>2, <1>3, <1>4, <1>5, <1>6, <1>7, <1>8, <1>9, <1>10, <1>11, <1>12, <1>13,
           <1>14, <1>15, <1>16, <1>17, <1>18, <1>19 DEF Next, PollStep, ThreadStep

-----------------------------------------------------------------------------
\* What a step does to the places.

Stay == \A a \in Threads : Where(a)' = Where(a)
Moves(a, x) == Where(a)' = x /\ \A b \in Threads \ {a} : Where(b)' = Where(b)

Nothing ==
  /\ Stay /\ UNCHANGED <<queued, slot>>
  /\ woken' = woken \/ (woken' = None /\ poll = "wake")
Makes(a, h) ==
  /\ Where(a) = None /\ ~Made(h) /\ Made(h)' /\ Moves(a, h) /\ UNCHANGED <<queued, slot, woken>>
Leaves(a) ==
  /\ Moves(a, None) /\ UNCHANGED <<queued, slot, woken>>
  /\ \E h \in Users : /\ Where(a) = h
                      /\ \/ h \in Handles /\ ~active[h] /\ UNCHANGED reader
                         \/ h \in Recvs /\ need'[h] = 0
Starts(a, h) ==
  /\ Where(a) = None /\ queued[h] > 0
  /\ Moves(a, h) \/ (Stay /\ h \in Handles /\ ~active[h] /\ UNCHANGED reader)
  /\ queued' = [queued EXCEPT ![h] = @ - 1] /\ UNCHANGED <<slot, woken>>
Stores(a, s) ==
  /\ Where(a) \in Users /\ Moves(a, None)
  /\ slot' = [slot EXCEPT ![s] = Where(a)] /\ UNCHANGED <<queued, woken>>
  /\ spoiled' \/ ~Outdated(Where(a))
Requeues(a) ==
  /\ Where(a) \in Users /\ Moves(a, None)
  /\ queued' = [queued EXCEPT ![Where(a)] = @ + 1] /\ UNCHANGED <<slot, woken>>
Takes(s) ==
  /\ poll = "wake" /\ Stay /\ UNCHANGED queued
  /\ woken' = slot[s] /\ slot' = [slot EXCEPT ![s] = None]
Resumes(h) ==
  \/ h \in Users /\ queued' = [queued EXCEPT ![h] = @ + 1]
  \/ (h \in Users => ~active[h]) /\ UNCHANGED queued
Calls == Stay /\ UNCHANGED slot /\ woken' = None /\ Resumes(woken)
Wakes(s) ==
  /\ Stay /\ UNCHANGED woken
  /\ slot' = [slot EXCEPT ![s] = None] /\ Resumes(slot[s])

Kinds ==
  \/ Nothing \/ Calls
  \/ \E a \in Threads : Leaves(a) \/ Requeues(a)
  \/ \E a \in Threads, h \in Users : Makes(a, h) \/ Starts(a, h)
  \/ \E a \in Threads, s \in Regs : Stores(a, s)
  \/ \E s \in Regs : Takes(s) \/ Wakes(s)

LEMMA WakeResumes ==
  ASSUME NEW h \in Users \cup {None}, Wake(h)
  PROVE  Resumes(h)
BY NoneAssumption DEF Wake, Resumes, SetResultUnlessDone, DispatchSoon

LEMMA KindsOfSteps ==
  ASSUME IInv, Next
  PROVE  Kinds
<1> USE TypeGroups, UsersAreNumbers, ThreadsAssumption, NoneAssumption DEF IInv, PCs, ArmPCs, DropPCs
<1>1. ASSUME PollWake
      PROVE  Kinds
  BY <1>1, UsersAreNumbers
     DEF Kinds, Nothing, Takes, Stay, Where, threadVars, KernelInv, PollWake
<1>2. ASSUME PollCall
      PROVE  Kinds
  BY <1>2, WakeResumes
     DEF Kinds, Calls, Stay, Where, threadVars, sioVars, PollTypes, PollCall
<1>3. ASSUME NEW a \in Threads, ShutdownWake(a)
      PROVE  Kinds
  <2>1. Stay /\ on[a] \in Regs /\ slot[on[a]] \in Users \cup {None}
    BY <1>3 DEF ShutdownWake, Stay, Where, ThreadsInv, ThreadTypes, SioTypes, Go, Enter
  <2> QED BY <1>3, <2>1, WakeResumes DEF ShutdownWake, Kinds, Wakes, pollVars
<1>4. ASSUME NEW a \in Threads, AddReader(a)
      PROVE  Kinds
  <2>0. PICK n \in Handles : n = added + 1
    BY <1>4, NextNumbers DEF AddReader
  <2>1. Moves(a, n) /\ Where(a) = None
    BY <1>4, <2>0 DEF AddReader, Moves, Where, Enter, ThreadTypes
  <2>2. ~Made(n) /\ Made(n)'
    BY <1>4, <2>0 DEF AddReader, Made, NumberTypes
  <2> QED BY <1>4, <2>1, <2>2 DEF AddReader, Kinds, Makes, sioVars, pollVars
<1>5. ASSUME NEW a \in Threads, Sio(a)
      PROVE  Kinds
  <2>0. PICK n \in Recvs : n = MaxAdds + recvd + 1
    BY <1>5, NextNumbers DEF Sio
  <2>1. ~Made(n) /\ Made(n)'
    BY <1>5, <2>0, SizeAssumption DEF Sio, Made, NumberTypes
  <2>2. Moves(a, n) /\ Where(a) = None
    BY <1>5, <2>0 DEF Sio, DropRegistration, Moves, Where, Enter, ThreadTypes
  <2> QED BY <1>5, <2>1, <2>2 DEF Sio, Kinds, Makes, sioVars, pollVars
<1>6. ASSUME NEW a \in Threads, NEW h \in Users, Dispatch(a, h)
      PROVE  Kinds
  <2>1. Where(a) = None /\ (Moves(a, h) \/ (Stay /\ h \in Handles /\ ~active[h]))
    BY <1>6 DEF Dispatch, Moves, Stay, Where, Enter, Idle, ThreadTypes
  <2> QED BY <1>6, <2>1 DEF Dispatch, Kinds, Starts, sioVars, pollVars, regVars
<1>7. ASSUME NEW a \in Threads, ArmKernel(a)
      PROVE  Kinds
  <2>1. Where(a) = on[a] /\ on[a] \in Users /\ (Where(a)' = None => Moves(a, None))
    BY <1>7 DEF ArmKernel, Moves, Where, Enter, Idle, ThreadTypes, ThreadsInv
  <2>2. CASE FdReady \/ attempts[a] + 1 >= Retries
    <3>1. Moves(a, None)
      BY <1>7, <2>2 DEF ArmKernel, Moves, Where, Enter, Idle, ThreadTypes
    <3> QED
      BY <1>7, <2>1, <2>2, <3>1 DEF ArmKernel, Kinds, Requeues, DispatchSoon, sioVars, pollVars
  <2>3. CASE ~(FdReady \/ attempts[a] + 1 >= Retries)
    BY <1>7, <2>3 DEF ArmKernel, Where, Enter, Kinds, Nothing, Stay, ThreadTypes, sioVars, pollVars
  <2> QED BY <2>2, <2>3
<1>8. ASSUME NEW a \in Threads, ArmStore(a)
      PROVE  Kinds
  <2>1. Where(a) = on[a] /\ on[a] \in Users /\ sio[on[a]] \in Regs
    BY <1>8 DEF ArmStore, Where, ThreadsInv, SioInv
  <2>2. CASE Ready(sio[on[a]])
    BY <1>8, <2>2 DEF ArmStore, Where, Go, Enter, Kinds, Nothing, Stay, ThreadTypes, pollVars
  <2>3. CASE ~Ready(sio[on[a]])
    <3>1. Moves(a, None)
      BY <1>8, <2>3 DEF ArmStore, Moves, Where, Enter, Idle, ThreadTypes
    <3> QED BY <1>8, <2>1, <2>3, <3>1 DEF ArmStore, Kinds, Stores, pollVars
  <2> QED BY <2>2, <2>3
<1>9. ASSUME NEW a \in Threads, ArmCheck(a)
      PROVE  Kinds
  <2>1. UNCHANGED <<queued, slot, woken>>
    BY <1>9 DEF ArmCheck, sioVars, pollVars
  <2>2. Stay \/ (Moves(a, None) /\ ~active[on[a]] /\ reader' = reader)
    BY <1>9 DEF ArmCheck, Stay, Moves, Where, Go, Idle, Enter, ThreadTypes, regVars
  <2>3. Where(a) = on[a] /\ on[a] \in Handles
    BY <1>9 DEF ArmCheck, Where, ThreadsInv
  <2> QED BY <2>1, <2>2, <2>3 DEF Kinds, Nothing, Leaves
<1>10. ASSUME NEW a \in Threads, SockTry(a)
       PROVE  Kinds
  <2>1. UNCHANGED <<queued, slot, woken>>
    BY <1>10 DEF SockTry, sioVars, pollVars
  <2>2. Where(a) = on[a] /\ on[a] \in Recvs /\ need[on[a]] \in Nat /\ need[on[a]] > 0
    BY <1>10 DEF SockTry, Where, ThreadsInv, LoopTypes, NeedInv, Busy
  <2>3. CASE data > 0 /\ ~(need[on[a]] > 1)
    <3>1. Moves(a, None)
      BY <1>10, <2>3 DEF SockTry, Moves, Where, Idle, Enter, ThreadTypes
    <3>2. need'[on[a]] = 0
      BY <1>10, <2>2, <2>3 DEF SockTry, LoopTypes
    <3> QED BY <2>1, <2>2, <3>1, <3>2 DEF Kinds, Leaves
  <2>4. CASE ~(data > 0 /\ ~(need[on[a]] > 1))
    <3>1. Stay
      BY <1>10, <2>4 DEF SockTry, Stay, Where, Go, Enter, ThreadTypes
    <3> QED BY <2>1, <3>1 DEF Kinds, Nothing
  <2> QED BY <2>3, <2>4
<1>11. ASSUME NEW a \in Threads,
              RemoveReader(a) \/ ReleaseFd(a)
       PROVE  Kinds
  BY <1>11
     DEF DropRegistration, sioVars, pollVars, Where, ThreadsInv, Enter, Go, Idle, Kinds,
         Nothing, Stay, ThreadTypes, RemoveReader, ReleaseFd
<1>12. ASSUME NEW a \in Threads, FlagRelease(a)
       PROVE  Kinds
  BY <1>12
     DEF sioVars, pollVars, Where, ThreadsInv, Enter, Go, Idle, Kinds, Nothing, Stay,
         ThreadTypes, FlagRelease
<1>13. ASSUME NEW a \in Threads, SioPin(a)
       PROVE  Kinds
  BY <1>13
     DEF sioVars, pollVars, Where, ThreadsInv, Enter, Go, Idle, Kinds, Nothing, Stay,
         ThreadTypes, SioPin
<1>14. ASSUME NEW a \in Threads,
              RunEnd(a) \/ ArmLoad(a) \/ ArmTick(a) \/ Clear(a)
       PROVE  Kinds
  BY <1>14
     DEF sioVars, pollVars, Where, ThreadsInv, Enter, Go, Idle, Kinds, Nothing, Stay,
         ThreadTypes, RunEnd, ArmLoad, ArmTick, Clear
<1>15. ASSUME NEW a \in Threads, CancelOld(a)
       PROVE  Kinds
  BY <1>15
     DEF sioVars, pollVars, Where, ThreadsInv, Enter, Go, Idle, Kinds, Nothing, Stay,
         ThreadTypes, CancelOld
<1>16. ASSUME NEW a \in Threads,
              Deregister(a) \/ Shutdown(a) \/ Park(a)
       PROVE  Kinds
  BY <1>16
     DEF sioVars, pollVars, Where, ThreadsInv, Enter, Go, Idle, Kinds, Nothing, Stay,
         ThreadTypes, Deregister, Shutdown, Park
<1>17. ASSUME Arrive \/ Writable \/ Recv \/ Reopen \/ PollTop \/ PollRelease \/ PollWait
              \/ PollSet
       PROVE  Kinds
  BY <1>17
     DEF Kinds, Nothing, Stay, Where, sioVars, pollVars, threadVars, Arrive, Writable, Recv,
         Reopen, PollTop, PollRelease, PollWait, PollSet
<1>18. ASSUME NEW r \in Recvs, CancelRecv(r)
       PROVE  Kinds
  BY <1>18
     DEF Kinds, Nothing, Stay, Where, sioVars, pollVars, threadVars, CancelRecv
<1> QED BY <1>1, <1>2, <1>3, <1>4, <1>5, <1>6, <1>7, <1>8, <1>9, <1>10, <1>11, <1>12, <1>13,
           <1>14, <1>15, <1>16, <1>17, <1>18 DEF Next, PollStep, ThreadStep

\* A step of any kind leaves each in one place.
LEMMA OnePlaceStep ==
  ASSUME IInv, Kinds
  PROVE  OnePlace'
<1> USE UsersAreNumbers
<1>t. slot \in [Regs -> Users \cup {None}] /\ queued \in [Users -> Nat]
  BY DEF IInv, TypeOK
<1>1. ASSUME Nothing \/ Calls
      PROVE  OnePlace'
  BY <1>1, <1>t DEF IInv, OnePlace, Busy, Nothing, Calls, Resumes, Stay
<1>2. ASSUME NEW a \in Threads, Leaves(a) \/ Requeues(a)
      PROVE  OnePlace'
  BY <1>2, <1>t DEF IInv, OnePlace, Busy, Leaves, Requeues, Moves
<1>3. ASSUME NEW a \in Threads, NEW g \in Users, Makes(a, g)
      PROVE  OnePlace'
  <2>1. Nowhere(g)
    BY <1>3 DEF IInv, Unmade, Makes
  <2> QED BY <1>3, <1>t, <2>1 DEF IInv, OnePlace, Busy, Makes, Moves, Nowhere
<1>4. ASSUME NEW a \in Threads, NEW g \in Users, Starts(a, g)
      PROVE  OnePlace'
  BY <1>4, <1>t DEF IInv, OnePlace, Busy, Starts, Moves, Stay
<1>5. ASSUME NEW a \in Threads, NEW s \in Regs, Stores(a, s)
      PROVE  OnePlace'
  BY <1>5, <1>t DEF IInv, OnePlace, Busy, Stores, Moves
<1>6. ASSUME NEW s \in Regs, Takes(s)
      PROVE  OnePlace'
  BY <1>6, <1>t DEF IInv, OnePlace, Busy, Takes, Stay
<1>7. ASSUME NEW s \in Regs, Wakes(s)
      PROVE  OnePlace'
  BY <1>7, <1>t DEF IInv, OnePlace, Busy, Wakes, Resumes, Stay
<1> QED BY <1>1, <1>2, <1>3, <1>4, <1>5, <1>6, <1>7 DEF Kinds, OnePlace

\* Nor does it bring one that is not made anywhere.
LEMMA NowhereStep ==
  ASSUME IInv, Kinds, NEW h \in Users, Nowhere(h), ~\E a \in Threads : Makes(a, h)
  PROVE  Nowhere(h)'
<1> USE UsersAreNumbers
<1>t. slot \in [Regs -> Users \cup {None}] /\ queued \in [Users -> Nat]
  BY DEF IInv, TypeOK
<1>1. ASSUME Nothing \/ Calls
      PROVE  Nowhere(h)'
  BY <1>1, <1>t DEF Nowhere, Busy, Nothing, Calls, Resumes, Stay
<1>2. ASSUME NEW a \in Threads, Leaves(a) \/ Requeues(a)
      PROVE  Nowhere(h)'
  BY <1>2, <1>t DEF Nowhere, Busy, Leaves, Requeues, Moves
<1>3. ASSUME NEW a \in Threads, NEW g \in Users, Makes(a, g) \/ Starts(a, g)
      PROVE  Nowhere(h)'
  BY <1>3, <1>t DEF Nowhere, Busy, Makes, Starts, Stay, Moves
<1>4. ASSUME NEW a \in Threads, NEW s \in Regs, Stores(a, s)
      PROVE  Nowhere(h)'
  BY <1>4, <1>t DEF Nowhere, Busy, Stores, Moves
<1>5. ASSUME NEW s \in Regs, Takes(s) \/ Wakes(s)
      PROVE  Nowhere(h)'
  BY <1>5, <1>t DEF Nowhere, Busy, Takes, Wakes, Resumes, Stay
<1> QED BY <1>1, <1>2, <1>3, <1>4, <1>5 DEF Kinds

Grows ==
  /\ added \in Nat /\ recvd \in Nat /\ added' \in Nat /\ recvd' \in Nat
  /\ added <= added' /\ recvd <= recvd'

LEMMA MadeStep ==
  ASSUME TypeOK, Next
  PROVE  Grows
<1>t. added \in Nat /\ recvd \in Nat
  BY SizeAssumption DEF TypeOK
<1>1. ASSUME NEW a \in Threads, AddReader(a)
      PROVE  Grows
  BY <1>1, <1>t
     DEF Grows, AddReader
<1>2. ASSUME NEW a \in Threads, Sio(a)
      PROVE  Grows
  BY <1>2, <1>t
     DEF Grows, Sio
<1>3. ASSUME NEW a \in Threads,
             SioPin(a) \/ SockTry(a) \/ RemoveReader(a) \/ ReleaseFd(a)
      PROVE  Grows
  BY <1>3, <1>t
     DEF Grows, regVars, SioPin, SockTry, RemoveReader, ReleaseFd
<1>4. ASSUME Arrive \/ Writable \/ Recv \/ Reopen \/ PollTop \/ PollRelease \/ PollWait
             \/ PollSet \/ PollWake \/ PollCall
      PROVE  Grows
  BY <1>4, <1>t
     DEF Grows, sockVars, regVars, Arrive, Writable, Recv, Reopen, PollTop, PollRelease, PollWait,
         PollSet, PollWake, PollCall
<1>5. ASSUME NEW r \in Recvs, CancelRecv(r)
      PROVE  Grows
  BY <1>5, <1>t
     DEF Grows, sockVars, regVars, CancelRecv
<1>6. ASSUME NEW a \in Threads,
             RunEnd(a) \/ ArmCheck(a) \/ ArmLoad(a) \/ ArmStore(a) \/ ArmTick(a) \/ ArmKernel(a)
             \/ Clear(a) \/ CancelOld(a) \/ Deregister(a) \/ Shutdown(a) \/ ShutdownWake(a)
             \/ Park(a) \/ FlagRelease(a)
      PROVE  Grows
  BY <1>6, <1>t
     DEF Grows, sockVars, regVars, RunEnd, ArmCheck, ArmLoad, ArmStore, ArmTick, ArmKernel, Clear,
         CancelOld, Deregister, Shutdown, ShutdownWake, Park, FlagRelease
<1>7. ASSUME NEW a \in Threads, NEW h \in Users, Dispatch(a, h)
      PROVE  Grows
  BY <1>7, <1>t
     DEF Grows, sockVars, regVars, Dispatch
<1> QED BY <1>1, <1>2, <1>3, <1>4, <1>5, <1>6, <1>7 DEF Next, PollStep, ThreadStep

LEMMA FlagsStep ==
  ASSUME IInv, Next, Grows, NEW g \in Users, ~Made(g)'
  PROVE  (~active[g] /\ g # reader /\ (g \in Recvs => need[g] = 0))'
<1> USE TypeGroups, UsersAreNumbers, SizeAssumption DEF IInv
<1>u. ~Made(g) /\ Nowhere(g) /\ queued[g] = 0 /\ ~active[g] /\ g # reader /\ (g \in Recvs => need[g] = 0)
  BY DEF Grows, Made, Unmade, Nowhere
<1>t. recvd \in Nat
  BY DEF Grows
<1>w. \A a \in Threads : Where(a) # g
  BY <1>u DEF Nowhere, Busy
<1>1. ASSUME NEW a \in Threads, AddReader(a)
      PROVE  (~active[g] /\ g # reader /\ (g \in Recvs => need[g] = 0))'
  BY <1>1, <1>u, NextNumbers
     DEF Made, UserTypes, LoopTypes, AddReader
<1>2. ASSUME NEW a \in Threads, SioPin(a)
      PROVE  (~active[g] /\ g # reader /\ (g \in Recvs => need[g] = 0))'
  BY <1>2, <1>u, <1>w, NextNumbers
     DEF UserTypes, LoopTypes, ThreadsInv, Where, ArmPCs, SioPin
<1>3. ASSUME NEW a \in Threads, NEW h \in Users, Dispatch(a, h)
      PROVE  (~active[g] /\ g # reader /\ (g \in Recvs => need[g] = 0))'
  BY <1>3, <1>u
     DEF UserTypes, regVars, sockVars, Dispatch
<1>4. ASSUME NEW a \in Threads, SockTry(a)
      PROVE  (~active[g] /\ g # reader /\ (g \in Recvs => need[g] = 0))'
  BY <1>4, <1>u, <1>w
     DEF UserTypes, LoopTypes, regVars, ThreadsInv, Where, ArmPCs, SockTry
<1>5. ASSUME NEW a \in Threads, Sio(a)
      PROVE  (~active[g] /\ g # reader /\ (g \in Recvs => need[g] = 0))'
  <2>1. active' = active /\ reader' = reader /\ recvd' = recvd + 1 /\ recvd \in Nat
    BY <1>5, <1>t DEF Sio
  <2>2. g \in Recvs => g # MaxAdds + recvd + 1
    BY <2>1 DEF Made
  <2>3. g \in Recvs => need'[g] = need[g]
    BY <1>5, <2>2 DEF Sio, LoopTypes
  <2> QED BY <1>u, <2>1, <2>3
<1>6. ASSUME PollCall
      PROVE  (~active[g] /\ g # reader /\ (g \in Recvs => need[g] = 0))'
  BY <1>6, <1>u
     DEF Wake, SetResultUnlessDone, Cancel, UserTypes, regVars, sockVars, PollCall
<1>7. ASSUME NEW a \in Threads, ShutdownWake(a)
      PROVE  (~active[g] /\ g # reader /\ (g \in Recvs => need[g] = 0))'
  BY <1>7, <1>u
     DEF Wake, SetResultUnlessDone, Cancel, UserTypes, regVars, sockVars, ShutdownWake
<1>8. ASSUME NEW a \in Threads, CancelOld(a)
      PROVE  (~active[g] /\ g # reader /\ (g \in Recvs => need[g] = 0))'
  BY <1>8, <1>u
     DEF Cancel, UserTypes, regVars, sockVars, CancelOld
<1>9. ASSUME NEW r \in Recvs, CancelRecv(r)
      PROVE  (~active[g] /\ g # reader /\ (g \in Recvs => need[g] = 0))'
  BY <1>9, <1>u
     DEF Cancel, UserTypes, LoopTypes, regVars, sockVars, CancelRecv
<1>10. ASSUME NEW a \in Threads,
              RemoveReader(a) \/ ReleaseFd(a)
       PROVE  (~active[g] /\ g # reader /\ (g \in Recvs => need[g] = 0))'
  BY <1>10, <1>u
     DEF Cancel, UserTypes, LoopTypes, RemoveReader, ReleaseFd
<1>11. ASSUME NEW a \in Threads,
              Park(a) \/ FlagRelease(a)
       PROVE  (~active[g] /\ g # reader /\ (g \in Recvs => need[g] = 0))'
  BY <1>11, <1>u
     DEF sockVars, Park, FlagRelease
<1>12. ASSUME PollTop \/ PollRelease
       PROVE  (~active[g] /\ g # reader /\ (g \in Recvs => need[g] = 0))'
  BY <1>12, <1>u
     DEF sockVars, PollTop, PollRelease
<1>13. ASSUME Arrive \/ Writable \/ Recv \/ Reopen \/ PollWait \/ PollSet \/ PollWake
       PROVE  (~active[g] /\ g # reader /\ (g \in Recvs => need[g] = 0))'
  BY <1>13, <1>u
     DEF kernelVars, sioVars, pollVars, regVars, sockVars, threadVars, Arrive, Writable, Recv,
         Reopen, PollWait, PollSet, PollWake
<1>14. ASSUME NEW a \in Threads,
              RunEnd(a) \/ ArmCheck(a) \/ ArmLoad(a) \/ ArmStore(a) \/ ArmTick(a)
              \/ ArmKernel(a) \/ Clear(a) \/ Deregister(a) \/ Shutdown(a)
       PROVE  (~active[g] /\ g # reader /\ (g \in Recvs => need[g] = 0))'
  BY <1>14, <1>u
     DEF kernelVars, sioVars, pollVars, regVars, sockVars, threadVars, RunEnd, ArmCheck,
         ArmLoad, ArmStore, ArmTick, ArmKernel, Clear, Deregister, Shutdown
<1> QED BY <1>1, <1>2, <1>3, <1>4, <1>5, <1>6, <1>7, <1>8, <1>9, <1>10, <1>11, <1>12, <1>13,
           <1>14 DEF Next, PollStep, ThreadStep

LEMMA UnmadeStep ==
  ASSUME IInv, Next, Kinds
  PROVE  Unmade'
<1> SUFFICES ASSUME NEW h \in Users, ~Made(h)'
    PROVE  Nowhere(h)' /\ (~active[h] /\ h # reader /\ (h \in Recvs => need[h] = 0))'
  BY DEF Unmade
<1>1. Grows
  BY MadeStep DEF IInv
<1>2. ~Made(h) /\ Nowhere(h)
  BY <1>1, SizeAssumption, UsersAreNumbers DEF Grows, Made, IInv, Unmade
<1>3. Nowhere(h)'
  BY <1>2, NowhereStep DEF Makes
<1> QED BY <1>1, <1>3, FlagsStep

LEMMA SioStep ==
  ASSUME IInv, Next
  PROVE  SioInv'
<1> USE TypeGroups, UsersAreNumbers, NoneAssumption DEF IInv
<1>1. ASSUME NEW a \in Threads, AddReader(a)
      PROVE  SioInv'
  <2>1. PICK n \in Handles : n = added + 1
    BY <1>1, NextNumbers DEF AddReader
  <2>2. Nowhere(n)
    BY <2>1 DEF Unmade, Made, NumberTypes
  <2>3. PICK s \in Regs : s = IF current = None THEN made + 1 ELSE current
    BY <1>1, NextNumbers DEF AddReader, LoopTypes
  <2>4. sio' = [sio EXCEPT ![n] = s]
    BY <1>1, <2>1, <2>3 DEF AddReader
  <2>5. \A h \in Users : h # n => active'[h] = active[h]
    BY <1>1, <2>1 DEF AddReader, UserTypes
  <2>6. \A b \in Threads \ {a} : pc'[b] = pc[b] /\ on'[b] = on[b]
    BY <1>1 DEF AddReader, Enter, ThreadTypes
  <2>7. on'[a] = n
    BY <1>1, <2>1 DEF AddReader, Enter, ThreadTypes
  <2>8. UNCHANGED <<slot, queued, woken>>
    BY <1>1 DEF AddReader, sioVars, pollVars
  <2> QED
    BY <2>2, <2>4, <2>5, <2>6, <2>7, <2>8
       DEF SioInv, UserTypes, Nowhere, ThreadsInv, ArmPCs, DropPCs
<1>2. ASSUME NEW a \in Threads, SioPin(a)
      PROVE  SioInv'
  <2>1. on[a] \in Recvs /\ Busy(on[a])
    BY <1>2 DEF SioPin, ThreadsInv, Busy, Where, ArmPCs
  <2>3. PICK s \in Regs : s = IF current = None THEN made + 1 ELSE current
    BY <1>2, NextNumbers DEF SioPin, LoopTypes, Pending, Entering
  <2>4. sio' = [sio EXCEPT ![on[a]] = s] /\ active' = [active EXCEPT ![on[a]] = TRUE]
    BY <1>2, <2>3 DEF SioPin
  <2>6. \A b \in Threads \ {a} : pc'[b] = pc[b] /\ on'[b] = on[b]
    BY <1>2 DEF SioPin, Go, Enter, ThreadTypes
  <2>7. on'[a] = on[a]
    BY <1>2 DEF SioPin, Go, Enter, ThreadTypes
  <2>8. UNCHANGED <<slot, queued, woken>>
    BY <1>2 DEF SioPin, sioVars, pollVars
  <2> QED
    BY <2>1, <2>4, <2>6, <2>7, <2>8 DEF SioInv, UserTypes, OnePlace, ThreadsInv, ArmPCs, DropPCs
<1>3. ASSUME NEW a \in Threads, ArmStore(a)
      PROVE  SioInv'
  BY <1>3
     DEF SioTypes, pollVars, SioInv, UserTypes, regVars, ThreadTypes, PCs, ArmPCs, DropPCs,
         ThreadsInv, Enter, Go, Idle, ArmStore
<1>4. ASSUME NEW a \in Threads, NEW h \in Users, Dispatch(a, h)
      PROVE  SioInv'
  BY <1>4
     DEF sioVars, pollVars, SioInv, UserTypes, regVars, ThreadTypes, PCs, ArmPCs, DropPCs,
         ThreadsInv, Enter, Go, Idle, Dispatch
<1>5. ASSUME PollWake
      PROVE  SioInv'
  BY <1>5
     DEF SioTypes, threadVars, KernelInv, sioVars, SioInv, UserTypes, regVars, PollWake
<1>6. ASSUME PollCall
      PROVE  SioInv'
  <2>1. \A h \in Users : (active'[h] => active[h]) /\ (queued'[h] > 0 => queued[h] > 0 \/ woken = h)
    BY <1>6 DEF PollCall, Wake, SetResultUnlessDone, DispatchSoon, Cancel, UserTypes, PollTypes
  <2> QED BY <1>6, <2>1 DEF PollCall, SioInv, PollTypes, threadVars, sioVars, regVars
<1>7. ASSUME NEW a \in Threads, ShutdownWake(a)
      PROVE  SioInv'
  <2>1. on[a] \in Regs
    BY <1>7 DEF ShutdownWake, ThreadsInv, DropPCs
  <2>2. \A h \in Users : (active'[h] => active[h]) /\ (queued'[h] > 0 => queued[h] > 0 \/ slot[on[a]] = h)
    BY <1>7, <2>1
       DEF ShutdownWake, Wake, SetResultUnlessDone, DispatchSoon, Cancel, UserTypes, SioTypes
  <2>3. \A h \in Users, s \in Regs : slot'[s] = h => slot[s] = h
    BY <1>7, <2>1 DEF ShutdownWake, SioTypes
  <2>4. \A b \in Threads : /\ on'[b] = on[b]
                           /\ pc'[b] \in {"run", "cancelold"} \cup (ArmPCs \ {"sio"}) => pc'[b] = pc[b]
    BY <1>7 DEF ShutdownWake, Go, Enter, ThreadTypes, ArmPCs
  <2> QED BY <1>7, <2>1, <2>2, <2>3, <2>4 DEF ShutdownWake, SioInv, regVars, pollVars
<1>8. ASSUME NEW a \in Threads, ArmKernel(a)
      PROVE  SioInv'
  BY <1>8
     DEF sioVars, pollVars, DispatchSoon, SioInv, UserTypes, regVars, ThreadTypes, PCs, ArmPCs,
         DropPCs, ThreadsInv, Enter, Go, Idle, ArmKernel
<1>9. ASSUME NEW a \in Threads, SockTry(a)
      PROVE  SioInv'
  <2>1. on[a] \in Users /\ sio[on[a]] \in Regs
    BY <1>9 DEF SockTry, ThreadsInv, SioInv, ArmPCs
  <2>2. \A h \in Users : active'[h] => active[h] \/ h = on[a]
    BY <1>9 DEF SockTry, UserTypes
  <2>3. \A b \in Threads : (pc'[b] = pc[b] /\ on'[b] = on[b]) \/ on'[b] = on[a] \/ pc'[b] = "idle"
    BY <1>9 DEF SockTry, Go, Idle, Enter, ThreadTypes
  <2> QED BY <1>9, <2>1, <2>2, <2>3 DEF SockTry, SioInv, regVars, sioVars, pollVars, ArmPCs
<1>10. ASSUME NEW a \in Threads,
              RunEnd(a) \/ ArmCheck(a) \/ ArmLoad(a)
       PROVE  SioInv'
  BY <1>10
     DEF sioVars, pollVars, SioInv, UserTypes, regVars, ThreadTypes, PCs, ArmPCs, DropPCs,
         ThreadsInv, Enter, Go, Idle, RunEnd, ArmCheck, ArmLoad
<1>11. ASSUME NEW a \in Threads,
              ArmTick(a) \/ Clear(a)
       PROVE  SioInv'
  BY <1>11
     DEF sioVars, pollVars, SioInv, UserTypes, regVars, ThreadTypes, PCs, ArmPCs, DropPCs,
         ThreadsInv, Enter, Go, Idle, ArmTick, Clear
<1>12. ASSUME NEW a \in Threads, CancelOld(a)
       PROVE  SioInv'
  BY <1>12
     DEF sioVars, pollVars, Cancel, SioInv, UserTypes, regVars, ThreadTypes, PCs, ArmPCs,
         DropPCs, ThreadsInv, Enter, Go, Idle, CancelOld
<1>13. ASSUME NEW a \in Threads,
              Deregister(a) \/ Shutdown(a) \/ Park(a)
       PROVE  SioInv'
  BY <1>13
     DEF sioVars, pollVars, SioInv, UserTypes, regVars, ThreadTypes, PCs, ArmPCs, DropPCs,
         ThreadsInv, Enter, Go, Idle, Deregister, Shutdown, Park
<1>14. ASSUME NEW a \in Threads, FlagRelease(a)
       PROVE  SioInv'
  BY <1>14
     DEF sioVars, pollVars, SioInv, UserTypes, regVars, ThreadTypes, PCs, ArmPCs, DropPCs,
         ThreadsInv, Enter, Go, Idle, FlagRelease
<1>15. ASSUME NEW a \in Threads,
              RemoveReader(a) \/ ReleaseFd(a)
       PROVE  SioInv'
  BY <1>15
     DEF sioVars, pollVars, Cancel, LoopTypes, DropRegistration, SioInv, UserTypes, regVars,
         ThreadTypes, PCs, ArmPCs, DropPCs, ThreadsInv, Enter, Go, Idle, RemoveReader, ReleaseFd
<1>16. ASSUME NEW a \in Threads, Sio(a)
       PROVE  SioInv'
  BY <1>16
     DEF sioVars, pollVars, DropRegistration, SioInv, UserTypes, regVars, ThreadTypes, PCs,
         ArmPCs, DropPCs, ThreadsInv, Enter, Go, Idle, Sio
<1>17. ASSUME NEW r \in Recvs, CancelRecv(r)
       PROVE  SioInv'
  BY <1>17
     DEF sioVars, pollVars, Cancel, threadVars, SioInv, UserTypes, regVars, CancelRecv
<1>18. ASSUME Arrive \/ Writable \/ Recv \/ Reopen \/ PollTop \/ PollRelease \/ PollWait
              \/ PollSet
       PROVE  SioInv'
  BY <1>18
     DEF SioInv, kernelVars, sioVars, pollVars, regVars, sockVars, threadVars, Arrive, Writable,
         Recv, Reopen, PollTop, PollRelease, PollWait, PollSet
<1> QED BY <1>1, <1>2, <1>3, <1>4, <1>5, <1>6, <1>7, <1>8, <1>9, <1>10, <1>11, <1>12, <1>13,
           <1>14, <1>15, <1>16, <1>17, <1>18 DEF Next, PollStep, ThreadStep


\* A task gets to a thread from the injector, and there when it is active or has just begun.
LEMMA BusyStep ==
  ASSUME IInv, Kinds, NEW r \in Recvs, recvd' = recvd, Busy(r)'
  PROVE  Busy(r) \/ queued[r] > 0
<1>1. ~\E a \in Threads : Makes(a, r)
  BY UsersAreNumbers DEF Makes, Made
<1> QED BY <1>1, UsersAreNumbers, NoneAssumption
        DEF Kinds, Nothing, Calls, Leaves, Requeues, Makes, Starts, Stores, Takes, Wakes, Stay,
            Moves, Busy

LEMMA QueuedStep ==
  ASSUME IInv, Next, NEW g \in Recvs
  PROVE  queued'[g] > 0 => queued[g] > 0 \/ active[g]
<1> USE TypeGroups, UsersAreNumbers, NoneAssumption DEF IInv
<1>1. ASSUME PollCall
      PROVE  queued'[g] > 0 => queued[g] > 0 \/ active[g]
  BY <1>1
     DEF Wake, SetResultUnlessDone, DispatchSoon, PollTypes, UserTypes, PollCall
<1>2. ASSUME NEW a \in Threads, ShutdownWake(a)
      PROVE  queued'[g] > 0 => queued[g] > 0 \/ active[g]
  <2>1. slot[on[a]] \in Users \cup {None}
    BY <1>2 DEF ShutdownWake, ThreadsInv, DropPCs, SioTypes
  <2> QED BY <1>2, <2>1 DEF ShutdownWake, Wake, SetResultUnlessDone, DispatchSoon, UserTypes
<1>3. ASSUME NEW a \in Threads, NEW h \in Users, Dispatch(a, h)
      PROVE  queued'[g] > 0 => queued[g] > 0 \/ active[g]
  BY <1>3
     DEF UserTypes, Dispatch
<1>4. ASSUME NEW a \in Threads, ArmKernel(a)
      PROVE  queued'[g] > 0 => queued[g] > 0 \/ active[g]
  BY <1>4
     DEF DispatchSoon, ThreadsInv, UserTypes, ArmKernel
<1>5. ASSUME Arrive \/ Writable \/ Recv \/ Reopen \/ PollTop \/ PollRelease \/ PollWait
             \/ PollSet \/ PollWake
      PROVE  queued'[g] > 0 => queued[g] > 0 \/ active[g]
  BY <1>5
     DEF UserTypes, Arrive, Writable, Recv, Reopen, PollTop, PollRelease, PollWait, PollSet,
         PollWake
<1>6. ASSUME NEW r \in Recvs, CancelRecv(r)
      PROVE  queued'[g] > 0 => queued[g] > 0 \/ active[g]
  BY <1>6
     DEF UserTypes, CancelRecv
<1>7. ASSUME NEW a \in Threads,
             RunEnd(a) \/ ArmCheck(a) \/ ArmLoad(a) \/ ArmStore(a) \/ ArmTick(a) \/ SioPin(a)
             \/ SockTry(a) \/ Clear(a) \/ CancelOld(a) \/ Deregister(a) \/ Shutdown(a)
             \/ Park(a) \/ FlagRelease(a) \/ AddReader(a) \/ RemoveReader(a) \/ ReleaseFd(a)
             \/ Sio(a)
      PROVE  queued'[g] > 0 => queued[g] > 0 \/ active[g]
  BY <1>7
     DEF UserTypes, RunEnd, ArmCheck, ArmLoad, ArmStore, ArmTick, SioPin, SockTry, Clear,
         CancelOld, Deregister, Shutdown, Park, FlagRelease, AddReader, RemoveReader, ReleaseFd,
         Sio
<1> QED BY <1>1, <1>2, <1>3, <1>4, <1>5, <1>6, <1>7 DEF Next, PollStep, ThreadStep

LEMMA ActiveStep ==
  ASSUME IInv, Next, NEW g \in Recvs
  PROVE  active'[g] => active[g] \/ Busy(g) \/ queued[g] > 0
<1> USE TypeGroups, UsersAreNumbers, NoneAssumption DEF IInv
<1>1. ASSUME NEW a \in Threads, AddReader(a)
      PROVE  active'[g] => active[g] \/ Busy(g) \/ queued[g] > 0
  BY <1>1, NextNumbers
     DEF UserTypes, AddReader
<1>2. ASSUME NEW a \in Threads,
             SioPin(a) \/ SockTry(a)
      PROVE  active'[g] => active[g] \/ Busy(g) \/ queued[g] > 0
  BY <1>2
     DEF Busy, Where, ArmPCs, UserTypes, SioPin, SockTry
<1>3. ASSUME NEW a \in Threads, NEW h \in Users, Dispatch(a, h)
      PROVE  active'[g] => active[g] \/ Busy(g) \/ queued[g] > 0
  BY <1>3
     DEF UserTypes, Dispatch
<1>4. ASSUME PollCall
      PROVE  active'[g] => active[g] \/ Busy(g) \/ queued[g] > 0
  BY <1>4
     DEF Wake, SetResultUnlessDone, Cancel, UserTypes, PollCall
<1>5. ASSUME NEW a \in Threads, ShutdownWake(a)
      PROVE  active'[g] => active[g] \/ Busy(g) \/ queued[g] > 0
  BY <1>5
     DEF Wake, SetResultUnlessDone, Cancel, UserTypes, ShutdownWake
<1>6. ASSUME NEW a \in Threads,
             CancelOld(a) \/ RemoveReader(a) \/ ReleaseFd(a)
      PROVE  active'[g] => active[g] \/ Busy(g) \/ queued[g] > 0
  BY <1>6
     DEF Cancel, UserTypes, CancelOld, RemoveReader, ReleaseFd
<1>7. ASSUME NEW r \in Recvs, CancelRecv(r)
      PROVE  active'[g] => active[g] \/ Busy(g) \/ queued[g] > 0
  BY <1>7
     DEF Cancel, UserTypes, CancelRecv
<1>8. ASSUME Arrive \/ Writable \/ Recv \/ Reopen \/ PollTop \/ PollRelease \/ PollWait
             \/ PollSet \/ PollWake
      PROVE  active'[g] => active[g] \/ Busy(g) \/ queued[g] > 0
  BY <1>8
     DEF UserTypes, Arrive, Writable, Recv, Reopen, PollTop, PollRelease, PollWait, PollSet,
         PollWake
<1>9. ASSUME NEW a \in Threads,
             RunEnd(a) \/ ArmCheck(a) \/ ArmLoad(a) \/ ArmStore(a) \/ ArmTick(a) \/ ArmKernel(a)
             \/ Clear(a) \/ Deregister(a) \/ Shutdown(a) \/ Park(a) \/ FlagRelease(a) \/ Sio(a)
      PROVE  active'[g] => active[g] \/ Busy(g) \/ queued[g] > 0
  BY <1>9
     DEF UserTypes, RunEnd, ArmCheck, ArmLoad, ArmStore, ArmTick, ArmKernel, Clear, Deregister,
         Shutdown, Park, FlagRelease, Sio
<1> QED BY <1>1, <1>2, <1>3, <1>4, <1>5, <1>6, <1>7, <1>8, <1>9 DEF Next, PollStep, ThreadStep

LEMMA NeedStep ==
  ASSUME IInv, Next, Kinds
  PROVE  NeedInv'
<1> USE TypeGroups, UsersAreNumbers, NoneAssumption DEF IInv
<1>1. ASSUME NEW a \in Threads, Sio(a)
      PROVE  NeedInv'
  <2>1. /\ need' = [need EXCEPT ![MaxAdds + recvd + 1] = app.need] /\ app.need \in Nat \ {0}
        /\ active' = active /\ queued' = queued
    BY <1>1, AppsAssumption DEF Sio, NumberTypes
  <2>2. \A r \in Recvs : Busy(r)' => Busy(r) \/ r = MaxAdds + recvd + 1
    BY <1>1 DEF Sio, DropRegistration, Enter, ThreadTypes, Busy, Where, ArmPCs, DropPCs
  <2> QED BY <2>1, <2>2 DEF NeedInv, LoopTypes
<1>2. ASSUME NEW a \in Threads, SockTry(a)
      PROVE  NeedInv'
  <2>1. on[a] \in Recvs /\ Where(a) = on[a] /\ queued' = queued
    BY <1>2 DEF SockTry, ThreadsInv, Where, ArmPCs
  <2>2. PICK r \in Recvs : r = on[a]
    BY <2>1
  <2>3. queued[r] = 0 /\ need[r] > 0 /\ \A b \in Threads : Where(b) = r => b = a
    BY <2>1, <2>2 DEF OnePlace, NeedInv, Busy
  <2>4. CASE data > 0 /\ ~(need[r] > 1)
    <3>1. ~active'[r]
      BY <1>2, <2>2, <2>4 DEF SockTry, UserTypes
    <3>2. ~Busy(r)'
      BY <1>2, <2>2, <2>3, <2>4 DEF SockTry, Idle, Enter, ThreadTypes, Busy, Where, ArmPCs, DropPCs
    <3>3. recvd' = recvd /\ \A g \in Recvs : g # r => need'[g] = need[g]
      BY <1>2, <2>2, <2>4 DEF SockTry, LoopTypes
    <3> QED BY <2>1, <2>3, <3>1, <3>2, <3>3, BusyStep, QueuedStep, ActiveStep DEF NeedInv
  <2>5. CASE ~(data > 0 /\ ~(need[r] > 1))
    <3>1. recvd' = recvd /\ \A g \in Recvs : need[g] > 0 => need'[g] > 0
      BY <1>2, <2>2, <2>5 DEF SockTry, LoopTypes
    <3> QED BY <3>1, BusyStep, QueuedStep, ActiveStep DEF NeedInv
  <2> QED BY <2>4, <2>5
<1>3. ASSUME NEW r \in Recvs, CancelRecv(r)
      PROVE  NeedInv'
  <2>1. ~Busy(r) /\ queued[r] = 0
    BY <1>3 DEF CancelRecv, SioInv, OnePlace, UserTypes
  <2>2. ~active'[r] /\ queued' = queued /\ recvd' = recvd /\ \A g \in Recvs : g # r => need'[g] = need[g]
    BY <1>3 DEF CancelRecv, Cancel, UserTypes, LoopTypes
  <2>3. ~Busy(r)'
    BY <1>3, <2>1 DEF CancelRecv, Busy, Where, threadVars
  <2> QED
    BY <2>1, <2>2, <2>3, BusyStep, QueuedStep, ActiveStep, UsersAreNumbers DEF NeedInv, UserTypes
<1>4. ASSUME NEW a \in Threads,
             AddReader(a) \/ SioPin(a) \/ RemoveReader(a) \/ ReleaseFd(a)
      PROVE  NeedInv'
  BY <1>4, BusyStep, QueuedStep, ActiveStep
     DEF NeedInv, AddReader, SioPin, RemoveReader, ReleaseFd
<1>5. ASSUME Reopen
      PROVE  NeedInv'
  BY <1>5, BusyStep, QueuedStep, ActiveStep
     DEF NeedInv, Reopen
<1>6. ASSUME Arrive \/ Writable \/ Recv \/ PollTop \/ PollRelease \/ PollWait \/ PollSet
             \/ PollWake \/ PollCall
      PROVE  NeedInv'
  BY <1>6, BusyStep, QueuedStep, ActiveStep
     DEF NeedInv, sockVars, Arrive, Writable, Recv, PollTop, PollRelease, PollWait, PollSet,
         PollWake, PollCall
<1>7. ASSUME NEW a \in Threads,
             RunEnd(a) \/ ArmCheck(a) \/ ArmLoad(a) \/ ArmStore(a) \/ ArmTick(a) \/ ArmKernel(a)
             \/ Clear(a) \/ CancelOld(a) \/ Deregister(a) \/ Shutdown(a) \/ ShutdownWake(a)
             \/ Park(a) \/ FlagRelease(a)
      PROVE  NeedInv'
  BY <1>7, BusyStep, QueuedStep, ActiveStep
     DEF NeedInv, sockVars, RunEnd, ArmCheck, ArmLoad, ArmStore, ArmTick, ArmKernel, Clear,
         CancelOld, Deregister, Shutdown, ShutdownWake, Park, FlagRelease
<1>8. ASSUME NEW a \in Threads, NEW h \in Users, Dispatch(a, h)
      PROVE  NeedInv'
  BY <1>8, BusyStep, QueuedStep, ActiveStep
     DEF NeedInv, sockVars, Dispatch
<1> QED BY <1>1, <1>2, <1>3, <1>4, <1>5, <1>6, <1>7, <1>8 DEF Next, PollStep, ThreadStep

-----------------------------------------------------------------------------
LEMMA IInvInit == Init => IInv
<1> SUFFICES ASSUME Init PROVE IInv
  OBVIOUS
<1>1. TypeOK
  BY TypeInit
<1>2. ThreadsInv /\ \A a \in Threads : ~Entering(a) /\ Where(a) = None
  BY ThreadsAssumption DEF Init, ThreadsInv, Entering, Where, DropPCs, ArmPCs
<1>3. Counts /\ KernelInv
  BY <1>2 DEF Init, Counts, Pending, KernelInv
<1>4. OnePlace /\ SioInv
  BY <1>2, UsersAreNumbers, NoneAssumption DEF Init, OnePlace, SioInv, Busy, ArmPCs
<1>5. Unmade /\ NeedInv
  BY <1>2, UsersAreNumbers, NoneAssumption DEF Init, Unmade, NeedInv, Nowhere, Busy
<1> QED BY <1>1, <1>2, <1>3, <1>4, <1>5 DEF IInv

LEMMA IInvStep == IInv /\ [Next]_vars => IInv'
<1>1. ASSUME IInv, Next
      PROVE  IInv'
  <2>1. TypeOK'
    BY <1>1, TypeGroups, NumberTypesStep, SioTypesStep, PollTypesStep, LoopTypesStep,
       UserTypesStep, ThreadTypesStep
       DEF IInv
  <2>2. ThreadsInv'
    BY <1>1, ThreadsStep DEF IInv
  <2>3. Counts' /\ KernelInv'
    BY <1>1, <2>2, CountsStep, KernelStep DEF IInv
  <2>4. Kinds
    BY <1>1, KindsOfSteps
  <2> QED BY <1>1, <2>1, <2>2, <2>3, <2>4, OnePlaceStep, UnmadeStep, SioStep, NeedStep DEF IInv
<1>2. ASSUME IInv, UNCHANGED vars
      PROVE  IInv'
  <2>1. UNCHANGED <<kernelVars, sioVars, pollVars, regVars, sockVars, active, queued, threadVars,
                    spoiled>>
    BY <1>2 DEF vars
  <2>2. TypeOK' /\ Counts' /\ KernelInv' /\ ThreadsInv'
    BY <1>2, <2>1
       DEF IInv, TypeOK, Counts, Pending, Entering, KernelInv, ThreadsInv, kernelVars, sioVars,
           pollVars, regVars, sockVars, threadVars
  <2>3. OnePlace' /\ Unmade' /\ SioInv' /\ NeedInv'
    BY <1>2, <2>1
       DEF IInv, OnePlace, Unmade, SioInv, NeedInv, Nowhere, Made, Busy, Where, kernelVars, sioVars,
           pollVars, regVars, sockVars, threadVars
  <2> QED BY <2>2, <2>3 DEF IInv
<1> QED BY <1>1, <1>2

LEMMA IInvHolds == Spec => []IInv
BY IInvInit, IInvStep, PTL DEF Spec

-----------------------------------------------------------------------------
\* Every variable keeps its type, whatever the threads, the poll thread, the peer and the
\* application do: no more registrations are made than there were calls, and the counters of
\* the data and of the injector do not go below zero.
THEOREM TypeCorrect == Spec => []TypeOK
BY IInvHolds, PTL DEF IInv

\* The poll thread never handles the event of a registration that has been freed: the ones that
\* are deregistered while it handles its batch are parked, and it frees them itself, before
\* the next batch.
THEOREM TokensAreAlive == Spec => []TokenAlive
<1>1. IInv => TokenAlive
  BY DEF IInv, KernelInv, TokenAlive
<1> QED BY <1>1, IInvHolds, PTL

LEMMA AtIsWhere ==
  ASSUME NEW h \in Users
  PROVE  At(h) = {a \in Threads : Where(a) = h}
BY NoneAssumption DEF At, Where, ArmPCs, DropPCs

\* The dispatches of a handle are serial: at most one thread runs its callback or arms it, and
\* none while another is in the injector.
THEOREM DispatchIsSerial == Spec => []SerialDispatch
<1>1. ASSUME IInv, NEW h \in Users
      PROVE  Cardinality(At(h)) + queued[h] <= 1
  <2>1. At(h) = {a \in Threads : Where(a) = h}
    BY AtIsWhere
  <2>2. queued[h] \in Nat /\ queued[h] <= 1
    BY <1>1 DEF IInv, TypeOK, OnePlace
  <2>3. CASE Busy(h)
    <3>1. PICK a \in Threads : Where(a) = h
      BY <2>3 DEF Busy
    <3>2. At(h) = {a}
      BY <1>1, <2>1, <3>1 DEF IInv, OnePlace
    <3>3. queued[h] = 0
      BY <1>1, <2>3 DEF IInv, OnePlace
    <3>4. Cardinality(At(h)) = 1
      BY <3>2, FS_Singleton
    <3> QED BY <3>3, <3>4
  <2>4. CASE ~Busy(h)
    <3>1. At(h) = {}
      BY <2>1, <2>4 DEF Busy
    <3>2. Cardinality(At(h)) = 0
      BY <3>1, FS_EmptySet
    <3> QED BY <2>2, <3>2
  <2> QED BY <2>3, <2>4
<1>2. IInv => SerialDispatch
  BY <1>1 DEF SerialDispatch
<1> QED BY <1>2, IInvHolds, PTL

-----------------------------------------------------------------------------
\* The edge.  What it takes to know that nobody waits for one that has been lost.

\* The poll thread has a callback only where it calls it.
WokenInv == poll # "call" => woken = None

\* The reader is the handle that was made last, and it is active: what add_reader cancels
\* outside of the lock is older.
ReaderInv ==
  /\ reader # None => reader = added /\ active[reader]
  /\ \A a \in Threads : pc[a] = "cancelold" => old[a] < on[a] /\ on[a] <= added

\* One reader or one helper at a time.
OneWanted == \A g, h \in Users : Wanted(g) /\ Wanted(h) => g = h

\* A helper that has not ended waits for its future, or is resumed, or has just begun.
NeedActive ==
  \A r \in Recvs :
    need[r] > 0 => active[r] \/ queued[r] > 0 \/ \E a \in Threads : Entering(a) /\ Where(a) = r

\* A registration that is in _sios and was made for the socket, or used by it, is the one
\* epoll knows; a helper that has the lock has dropped any other that has an owner.
OwnerInv ==
  /\ \A a \in Threads : pc[a] \in DropPCs => current = None
  /\ siosLock # None /\ current # None => owner \in {0, sock}
  /\ ~stale /\ current # None /\ owner = sock => polled = current

\* Nobody but the helper that begins is at the descriptor while _sios_lock is held over steps;
\* and else the registration in _sios is the one that is waited at, and the one epoll knows.
LockInv == \A a \in Threads, h \in Users : siosLock = a /\ Wanted(h) => Where(a) = h
RegInv ==
  ~stale /\ siosLock = None => \A h \in Users : Wanted(h) => sio[h] = current /\ polled = current

\* No handle that counts is lost.
Held ==
  ~spoiled => \A h \in Users :
    Wanted(h) => Busy(h) \/ queued[h] > 0 \/ woken = h \/ \E s \in Regs : slot[s] = h

\* Data that nobody knows of comes with an event of the kernel, or one that is being handled:
\* at an empty readiness, at a slot, and where the readiness is about to be cleared.
Coming(s) == edge \/ (poll = "set" /\ token = s /\ event)

ReadyInv == ~spoiled => \A s \in Regs : polled = s /\ data > 0 => ready[s] \/ Coming(s)
SlotInv ==
  ~spoiled => \A s \in Regs :
    polled = s /\ slot[s] # None /\ data > 0
      => edge \/ (poll \in {"set", "wake"} /\ token = s /\ event)
ClearInv ==
  ~spoiled => \A a \in Threads :
    LET s == sio[on[a]] IN
    pc[a] = "clear" /\ ~Outdated(on[a]) /\ tick[s] = tickR[s] /\ polled = s /\ data > 0
      => Coming(s)

EInv == /\ WokenInv /\ ReaderInv /\ OneWanted /\ NeedActive /\ OwnerInv /\ LockInv
        /\ RegInv /\ Held /\ ReadyInv /\ SlotInv /\ ClearInv

\* A handle is cancelled when it is removed, or by the add_reader that has replaced it.
StaysActive(h) ==
  \/ active'[h]
  \/ h = reader /\ reader' = None
  \/ \E a \in Threads : pc[a] = "cancelold" /\ old[a] = h

LEMMA WokenStep ==
  ASSUME WokenInv, Next
  PROVE  WokenInv'
<1>1. ASSUME Arrive \/ Writable \/ Recv \/ Reopen \/ PollTop \/ PollRelease \/ PollWait
             \/ PollSet \/ PollWake \/ PollCall
      PROVE  WokenInv'
  BY <1>1
     DEF WokenInv, pollVars, Arrive, Writable, Recv, Reopen, PollTop, PollRelease, PollWait,
         PollSet, PollWake, PollCall
<1>2. ASSUME NEW r \in Recvs, CancelRecv(r)
      PROVE  WokenInv'
  BY <1>2
     DEF WokenInv, pollVars, CancelRecv
<1>3. ASSUME NEW a \in Threads,
             RunEnd(a) \/ ArmCheck(a) \/ ArmLoad(a) \/ ArmStore(a) \/ ArmTick(a) \/ ArmKernel(a)
             \/ SioPin(a) \/ SockTry(a) \/ Clear(a) \/ CancelOld(a) \/ Deregister(a)
             \/ Shutdown(a) \/ ShutdownWake(a) \/ Park(a) \/ FlagRelease(a) \/ AddReader(a)
             \/ RemoveReader(a) \/ ReleaseFd(a) \/ Sio(a)
      PROVE  WokenInv'
  BY <1>3
     DEF WokenInv, pollVars, RunEnd, ArmCheck, ArmLoad, ArmStore, ArmTick, ArmKernel, SioPin,
         SockTry, Clear, CancelOld, Deregister, Shutdown, ShutdownWake, Park, FlagRelease,
         AddReader, RemoveReader, ReleaseFd, Sio
<1>4. ASSUME NEW a \in Threads, NEW h \in Users, Dispatch(a, h)
      PROVE  WokenInv'
  BY <1>4
     DEF WokenInv, pollVars, Dispatch
<1> QED BY <1>1, <1>2, <1>3, <1>4 DEF Next, PollStep, ThreadStep

LEMMA ActiveHandleStep ==
  ASSUME IInv, Next, NEW g \in Handles, active[g]
  PROVE  StaysActive(g)
<1> USE TypeGroups, UsersAreNumbers, NoneAssumption DEF IInv
<1>1. ASSUME NEW a \in Threads, AddReader(a)
      PROVE  StaysActive(g)
  BY <1>1, NextNumbers
     DEF StaysActive, UserTypes, AddReader
<1>2. ASSUME NEW a \in Threads, SioPin(a)
      PROVE  StaysActive(g)
  BY <1>2
     DEF StaysActive, UserTypes, ThreadsInv, SioPin
<1>3. ASSUME NEW a \in Threads, SockTry(a)
      PROVE  StaysActive(g)
  BY <1>3
     DEF StaysActive, UserTypes, ThreadsInv, SockTry
<1>4. ASSUME NEW a \in Threads, NEW h \in Users, Dispatch(a, h)
      PROVE  StaysActive(g)
  BY <1>4
     DEF StaysActive, UserTypes, Dispatch
<1>5. ASSUME NEW a \in Threads,
             CancelOld(a) \/ RemoveReader(a) \/ ReleaseFd(a)
      PROVE  StaysActive(g)
  BY <1>5
     DEF StaysActive, Cancel, UserTypes, LoopTypes, ThreadsInv, CancelOld, RemoveReader, ReleaseFd
<1>6. ASSUME NEW r \in Recvs, CancelRecv(r)
      PROVE  StaysActive(g)
  BY <1>6
     DEF StaysActive, Cancel, UserTypes, CancelRecv
<1>7. ASSUME PollCall
      PROVE  StaysActive(g)
  BY <1>7
     DEF StaysActive, Wake, SetResultUnlessDone, Cancel, UserTypes, PollCall
<1>8. ASSUME NEW a \in Threads, ShutdownWake(a)
      PROVE  StaysActive(g)
  BY <1>8
     DEF StaysActive, Wake, SetResultUnlessDone, Cancel, UserTypes, ShutdownWake
<1>9. ASSUME Arrive \/ Writable \/ Recv \/ Reopen \/ PollTop \/ PollRelease \/ PollWait
             \/ PollSet \/ PollWake
      PROVE  StaysActive(g)
  BY <1>9
     DEF StaysActive, Arrive, Writable, Recv, Reopen, PollTop, PollRelease, PollWait, PollSet, PollWake
<1>10. ASSUME NEW a \in Threads,
              RunEnd(a) \/ ArmCheck(a) \/ ArmLoad(a) \/ ArmStore(a) \/ ArmTick(a)
              \/ ArmKernel(a) \/ Clear(a) \/ Deregister(a) \/ Shutdown(a) \/ Park(a)
              \/ FlagRelease(a) \/ Sio(a)
       PROVE  StaysActive(g)
  BY <1>10
     DEF StaysActive, RunEnd, ArmCheck, ArmLoad, ArmStore, ArmTick, ArmKernel, Clear, Deregister, Shutdown,
         Park, FlagRelease, Sio
<1> QED
  BY <1>1, <1>2, <1>3, <1>4, <1>5, <1>6, <1>7, <1>8, <1>9, <1>10 DEF Next, PollStep, ThreadStep

LEMMA ReaderInvStep ==
  ASSUME IInv, ReaderInv, Next
  PROVE  ReaderInv'
<1> USE TypeGroups, UsersAreNumbers, NoneAssumption DEF IInv
<1>a. reader # None /\ reader' = reader => active'[reader]
  <2> SUFFICES ASSUME reader # None, reader' = reader
      PROVE  active'[reader]
    OBVIOUS
  <2>1. reader \in Handles /\ reader = added /\ active[reader]
    BY DEF ReaderInv, LoopTypes
  <2>2. \A a \in Threads : pc[a] = "cancelold" => old[a] # reader
    BY <2>1 DEF ReaderInv, ThreadsInv, NumberTypes
  <2> QED BY <2>1, <2>2, ActiveHandleStep DEF StaysActive
<1>1. ASSUME NEW a \in Threads, AddReader(a)
      PROVE  ReaderInv'
  BY <1>1, NextNumbers
     DEF UserTypes, NumberTypes, LoopTypes, ThreadTypes, ReaderInv, ThreadsInv, Enter, Go, Idle,
         AddReader
<1>2. ASSUME NEW a \in Threads,
             RemoveReader(a) \/ ReleaseFd(a)
      PROVE  ReaderInv'
  BY <1>2
     DEF LoopTypes, DropRegistration, ThreadTypes, ReaderInv, ThreadsInv, Enter, Go, Idle,
         RemoveReader, ReleaseFd
<1>3. ASSUME NEW a \in Threads, Sio(a)
      PROVE  ReaderInv'
  BY <1>3
     DEF LoopTypes, DropRegistration, ThreadTypes, ReaderInv, ThreadsInv, Enter, Go, Idle, Sio
<1>4. ASSUME NEW a \in Threads, SioPin(a)
      PROVE  ReaderInv'
  BY <1>4, <1>a
     DEF ThreadTypes, ReaderInv, ThreadsInv, Enter, Go, Idle, SioPin
<1>5. ASSUME NEW a \in Threads, CancelOld(a)
      PROVE  ReaderInv'
  BY <1>5, <1>a
     DEF regVars, LoopTypes, NumberTypes, ThreadTypes, ReaderInv, ThreadsInv, Enter, Go, Idle,
         CancelOld
<1>6. ASSUME NEW a \in Threads, NEW h \in Users, Dispatch(a, h)
      PROVE  ReaderInv'
  BY <1>6, <1>a
     DEF regVars, ThreadTypes, ReaderInv, ThreadsInv, Enter, Go, Idle, Dispatch
<1>7. ASSUME NEW a \in Threads,
             RunEnd(a) \/ ArmCheck(a) \/ ArmLoad(a) \/ ArmStore(a)
      PROVE  ReaderInv'
  BY <1>7, <1>a
     DEF regVars, ThreadTypes, ReaderInv, ThreadsInv, Enter, Go, Idle, RunEnd, ArmCheck,
         ArmLoad, ArmStore
<1>8. ASSUME NEW a \in Threads,
             ArmTick(a) \/ ArmKernel(a) \/ Clear(a)
      PROVE  ReaderInv'
  BY <1>8, <1>a
     DEF regVars, ThreadTypes, ReaderInv, ThreadsInv, Enter, Go, Idle, ArmTick, ArmKernel, Clear
<1>9. ASSUME NEW a \in Threads, SockTry(a)
      PROVE  ReaderInv'
  BY <1>9, <1>a
     DEF regVars, ThreadTypes, ReaderInv, ThreadsInv, Enter, Go, Idle, SockTry
<1>10. ASSUME NEW a \in Threads,
              Deregister(a) \/ Shutdown(a) \/ ShutdownWake(a) \/ Park(a) \/ FlagRelease(a)
       PROVE  ReaderInv'
  BY <1>10, <1>a
     DEF regVars, ThreadTypes, ReaderInv, ThreadsInv, Enter, Go, Idle, Deregister, Shutdown,
         ShutdownWake, Park, FlagRelease
<1>11. ASSUME Arrive \/ Writable \/ Recv \/ Reopen \/ PollTop \/ PollRelease \/ PollWait
              \/ PollSet \/ PollWake \/ PollCall
       PROVE  ReaderInv'
  BY <1>11, <1>a
     DEF ReaderInv, regVars, threadVars, Arrive, Writable, Recv, Reopen, PollTop, PollRelease,
         PollWait, PollSet, PollWake, PollCall
<1>12. ASSUME NEW r \in Recvs, CancelRecv(r)
       PROVE  ReaderInv'
  BY <1>12, <1>a
     DEF ReaderInv, regVars, threadVars, CancelRecv
<1> QED
  BY <1>1, <1>2, <1>3, <1>4, <1>5, <1>6, <1>7, <1>8, <1>9, <1>10, <1>11, <1>12
     DEF Next, PollStep, ThreadStep


\* Only add_reader and sock_recv make somebody wanted, and when nobody else is.
NewlyWanted(a, h) ==
  \/ AddReader(a) /\ h = added + 1
  \/ Sio(a) /\ h = MaxAdds + recvd + 1

LEMMA WantedStep ==
  ASSUME IInv, Next, NEW g \in Users, Wanted(g)'
  PROVE  Wanted(g) \/ \E b \in Threads : NewlyWanted(b, g)
<1> USE TypeGroups, UsersAreNumbers, NoneAssumption DEF IInv
<1>1. ASSUME NEW a \in Threads, AddReader(a)
      PROVE  Wanted(g) \/ \E b \in Threads : NewlyWanted(b, g)
  BY <1>1
     DEF NewlyWanted, Wanted, AddReader
<1>2. ASSUME NEW a \in Threads, Sio(a)
      PROVE  Wanted(g) \/ \E b \in Threads : NewlyWanted(b, g)
  BY <1>2
     DEF NewlyWanted, Wanted, LoopTypes, Sio
<1>3. ASSUME NEW a \in Threads,
             RemoveReader(a) \/ ReleaseFd(a) \/ SioPin(a)
      PROVE  Wanted(g) \/ \E b \in Threads : NewlyWanted(b, g)
  BY <1>3
     DEF Wanted, RemoveReader, ReleaseFd, SioPin
<1>4. ASSUME NEW a \in Threads, SockTry(a)
      PROVE  Wanted(g) \/ \E b \in Threads : NewlyWanted(b, g)
  BY <1>4
     DEF Wanted, LoopTypes, ThreadsInv, regVars, SockTry
<1>5. ASSUME NEW r \in Recvs, CancelRecv(r)
      PROVE  Wanted(g) \/ \E b \in Threads : NewlyWanted(b, g)
  BY <1>5
     DEF Wanted, LoopTypes, regVars, CancelRecv
<1>6. ASSUME Reopen
      PROVE  Wanted(g) \/ \E b \in Threads : NewlyWanted(b, g)
  BY <1>6
     DEF Wanted, regVars, Reopen
<1>7. ASSUME Arrive \/ Writable \/ Recv \/ PollTop \/ PollRelease \/ PollWait \/ PollSet
             \/ PollWake \/ PollCall
      PROVE  Wanted(g) \/ \E b \in Threads : NewlyWanted(b, g)
  BY <1>7
     DEF Wanted, regVars, sockVars, Arrive, Writable, Recv, PollTop, PollRelease, PollWait,
         PollSet, PollWake, PollCall
<1>8. ASSUME NEW a \in Threads,
             RunEnd(a) \/ ArmCheck(a) \/ ArmLoad(a) \/ ArmStore(a) \/ ArmTick(a) \/ ArmKernel(a)
             \/ Clear(a) \/ CancelOld(a) \/ Deregister(a) \/ Shutdown(a) \/ ShutdownWake(a)
             \/ Park(a) \/ FlagRelease(a)
      PROVE  Wanted(g) \/ \E b \in Threads : NewlyWanted(b, g)
  BY <1>8
     DEF Wanted, regVars, sockVars, RunEnd, ArmCheck, ArmLoad, ArmStore, ArmTick, ArmKernel,
         Clear, CancelOld, Deregister, Shutdown, ShutdownWake, Park, FlagRelease
<1>9. ASSUME NEW a \in Threads, NEW h \in Users, Dispatch(a, h)
      PROVE  Wanted(g) \/ \E b \in Threads : NewlyWanted(b, g)
  BY <1>9
     DEF Wanted, regVars, sockVars, Dispatch
<1> QED BY <1>1, <1>2, <1>3, <1>4, <1>5, <1>6, <1>7, <1>8, <1>9 DEF Next, PollStep, ThreadStep

LEMMA NewlyWantedAlone ==
  ASSUME IInv, NEW a \in Threads, NEW h \in Users, NewlyWanted(a, h)
  PROVE  /\ ~Made(h) /\ ~Wanted(h) /\ Wanted(h)'
         /\ \A g \in Users : Wanted(g)' => g = h
         /\ h \in Recvs => \A g \in Users : ~Wanted(g)
<1> USE TypeGroups, UsersAreNumbers, NoneAssumption, SizeAssumption DEF IInv
<1>1. CASE AddReader(a) /\ h = added + 1
  <2>1. h \in Handles /\ ~Made(h)
    BY <1>1, NextNumbers DEF AddReader, Made, NumberTypes
  <2>2. reader' = h /\ need' = need /\ \A r \in Recvs : ~(need[r] > 0)
    BY <1>1 DEF AddReader, Receiving
  <2> QED BY <2>1, <2>2 DEF Wanted, Unmade
<1>2. CASE Sio(a) /\ h = MaxAdds + recvd + 1
  <2>1. h \in Recvs /\ ~Made(h)
    BY <1>2, NextNumbers DEF Sio, Made, NumberTypes
  <2>2. reader = None /\ reader' = None /\ \A r \in Recvs : ~(need[r] > 0)
    BY <1>2 DEF Sio, Unread, Receiving
  <2>3. need' = [need EXCEPT ![h] = app.need] /\ app.need > 0
    BY <1>2, AppsAssumption DEF Sio, NumberTypes
  <2> QED BY <2>1, <2>2, <2>3 DEF Wanted, LoopTypes
<1> QED BY <1>1, <1>2 DEF NewlyWanted

LEMMA OneWantedStep ==
  ASSUME IInv, OneWanted, Next
  PROVE  OneWanted'
<1>1. CASE \E a \in Threads, h \in Users : NewlyWanted(a, h)
  BY <1>1, NewlyWantedAlone DEF OneWanted
<1>2. CASE ~\E a \in Threads, h \in Users : NewlyWanted(a, h)
  BY <1>2, WantedStep DEF OneWanted
<1> QED BY <1>1, <1>2

LEMMA NeedActiveStep ==
  ASSUME IInv, NeedActive, Next
  PROVE  NeedActive'
<1> USE TypeGroups, UsersAreNumbers, NoneAssumption, ThreadsAssumption DEF IInv
<1>1. ASSUME NEW a \in Threads, AddReader(a)
      PROVE  NeedActive'
  BY <1>1, NextNumbers
     DEF NeedActive, UserTypes, Entering, Where, ArmPCs, DropPCs, ThreadTypes, ThreadsInv,
         Enter, Go, Idle, AddReader
<1>2. ASSUME NEW a \in Threads, Sio(a)
      PROVE  NeedActive'
  <2>1. PICK n \in Recvs : n = MaxAdds + recvd + 1
    BY <1>2, NextNumbers DEF Sio
  <2>2. Entering(a)' /\ Where(a)' = n
    BY <1>2, <2>1 DEF Sio, DropRegistration, Entering, Where, Enter, ThreadTypes, ArmPCs, DropPCs
  <2>3. \A r \in Recvs : r # n => ~(need'[r] > 0)
    BY <1>2, <2>1 DEF Sio, Unread, Receiving, LoopTypes
  <2> QED BY <2>2, <2>3 DEF NeedActive
<1>3. ASSUME NEW a \in Threads, SioPin(a)
      PROVE  NeedActive'
  <2>1. need' = need /\ queued' = queued /\ active' = [active EXCEPT ![on[a]] = TRUE] /\ Where(a) = on[a]
    BY <1>3 DEF SioPin, Where, ArmPCs
  <2>2. \A b \in Threads \ {a} : Entering(b)' = Entering(b) /\ Where(b)' = Where(b)
    BY <1>3 DEF SioPin, Entering, Where, Go, Enter, ThreadTypes
  <2>3. \A r \in Recvs : r = on[a] => active'[r]
    BY <2>1 DEF UserTypes
  <2>4. \A r \in Recvs : r # on[a] => active'[r] = active[r]
    BY <2>1 DEF UserTypes
  <2> QED BY <2>1, <2>2, <2>3, <2>4 DEF NeedActive
<1>4. ASSUME NEW a \in Threads, SockTry(a)
      PROVE  NeedActive'
  <2>1. on[a] \in Recvs /\ queued' = queued /\ ~Entering(a) /\ Where(a) = on[a]
    BY <1>4 DEF SockTry, ThreadsInv, Entering, Where, ArmPCs, DropPCs
  <2>2. \A b \in Threads \ {a} : Entering(b)' = Entering(b) /\ Where(b)' = Where(b)
    BY <1>4 DEF SockTry, Entering, Where, Go, Idle, Enter, ThreadTypes
  <2>3. \A r \in Recvs : r # on[a] => active'[r] = active[r] /\ need'[r] = need[r]
    BY <1>4, <2>1 DEF SockTry, UserTypes, LoopTypes
  <2>4. CASE data > 0
    <3>1. /\ need' = [need EXCEPT ![on[a]] = @ - 1]
          /\ active' = [active EXCEPT ![on[a]] = need[on[a]] > 1]
      BY <1>4, <2>4 DEF SockTry
    <3>2. need'[on[a]] > 0 => need[on[a]] > 1
      BY <2>1, <3>1 DEF LoopTypes
    <3>3. need'[on[a]] > 0 => active'[on[a]]
      BY <2>1, <3>1, <3>2 DEF UserTypes
    <3> QED BY <2>1, <2>2, <2>3, <3>3 DEF NeedActive
  <2>5. CASE ~(data > 0)
    <3>1. need' = need /\ active' = active
      BY <1>4, <2>5 DEF SockTry
    <3> QED BY <2>1, <2>2, <3>1 DEF NeedActive
  <2> QED BY <2>4, <2>5
<1>5. ASSUME NEW a \in Threads, NEW h \in Users, Dispatch(a, h)
      PROVE  NeedActive'
  <2>1. need' = need /\ ~Entering(a)
    BY <1>5 DEF Dispatch, sockVars, Entering, DropPCs
  <2>2. \A b \in Threads \ {a} : Entering(b)' = Entering(b) /\ Where(b)' = Where(b)
    BY <1>5 DEF Dispatch, Entering, Where, Idle, Enter, ThreadTypes
  <2>3. \A r \in Recvs : r # h => active'[r] = active[r] /\ queued'[r] = queued[r]
    BY <1>5 DEF Dispatch, UserTypes
  <2>4. h \in Recvs => active'[h]
    BY <1>5 DEF Dispatch, UserTypes
  <2> QED BY <2>1, <2>2, <2>3, <2>4 DEF NeedActive
<1>6. ASSUME PollCall
      PROVE  NeedActive'
  <2>1. \A r \in Recvs : active[r] \/ queued[r] > 0 => active'[r] \/ queued'[r] > 0
    BY <1>6 DEF PollCall, Wake, SetResultUnlessDone, DispatchSoon, Cancel, UserTypes, PollTypes
  <2> QED BY <1>6, <2>1 DEF PollCall, NeedActive, sockVars, Entering, Where, threadVars
<1>7. ASSUME NEW a \in Threads, ShutdownWake(a)
      PROVE  NeedActive'
  <2>1. slot[on[a]] \in Users \cup {None}
    BY <1>7 DEF ShutdownWake, ThreadsInv, DropPCs, SioTypes
  <2>2. \A r \in Recvs : active[r] \/ queued[r] > 0 => active'[r] \/ queued'[r] > 0
    BY <1>7, <2>1 DEF ShutdownWake, Wake, SetResultUnlessDone, DispatchSoon, Cancel, UserTypes
  <2>3. \A b \in Threads : Entering(b)' = Entering(b) /\ Where(b)' = Where(b)
    BY <1>7 DEF ShutdownWake, Entering, Where, Go, Enter, ThreadTypes, DropPCs, ArmPCs
  <2> QED BY <1>7, <2>2, <2>3 DEF ShutdownWake, NeedActive, sockVars
<1>8. ASSUME NEW r \in Recvs, CancelRecv(r)
      PROVE  NeedActive'
  BY <1>8
     DEF Cancel, Entering, Where, threadVars, LoopTypes, NeedActive, UserTypes, CancelRecv
<1>9. ASSUME NEW a \in Threads, CancelOld(a)
      PROVE  NeedActive'
  BY <1>9
     DEF Cancel, sockVars, NeedActive, UserTypes, Entering, Where, ArmPCs, DropPCs, ThreadTypes,
         ThreadsInv, Enter, Go, Idle, CancelOld
<1>10. ASSUME NEW a \in Threads,
              RemoveReader(a) \/ ReleaseFd(a)
       PROVE  NeedActive'
  BY <1>10
     DEF Cancel, DropRegistration, LoopTypes, NeedActive, UserTypes, Entering, Where, ArmPCs,
         DropPCs, ThreadTypes, ThreadsInv, Enter, Go, Idle, RemoveReader, ReleaseFd
<1>11. ASSUME NEW a \in Threads, ArmKernel(a)
       PROVE  NeedActive'
  BY <1>11
     DEF DispatchSoon, sockVars, NeedActive, UserTypes, Entering, Where, ArmPCs, DropPCs,
         ThreadTypes, ThreadsInv, Enter, Go, Idle, ArmKernel
<1>12. ASSUME NEW a \in Threads,
              RunEnd(a) \/ ArmCheck(a) \/ ArmLoad(a) \/ ArmStore(a)
       PROVE  NeedActive'
  BY <1>12
     DEF sockVars, NeedActive, UserTypes, Entering, Where, ArmPCs, DropPCs, ThreadTypes,
         ThreadsInv, Enter, Go, Idle, RunEnd, ArmCheck, ArmLoad, ArmStore
<1>13. ASSUME NEW a \in Threads,
              ArmTick(a) \/ Clear(a)
       PROVE  NeedActive'
  BY <1>13
     DEF sockVars, NeedActive, UserTypes, Entering, Where, ArmPCs, DropPCs, ThreadTypes,
         ThreadsInv, Enter, Go, Idle, ArmTick, Clear
<1>14. ASSUME NEW a \in Threads,
              Deregister(a) \/ Shutdown(a) \/ Park(a)
       PROVE  NeedActive'
  BY <1>14
     DEF sockVars, NeedActive, UserTypes, Entering, Where, ArmPCs, DropPCs, ThreadTypes,
         ThreadsInv, Enter, Go, Idle, Deregister, Shutdown, Park
<1>15. ASSUME NEW a \in Threads, FlagRelease(a)
       PROVE  NeedActive'
  BY <1>15
     DEF sockVars, NeedActive, UserTypes, Entering, Where, ArmPCs, DropPCs, ThreadTypes,
         ThreadsInv, Enter, Go, Idle, FlagRelease
<1>16. ASSUME Reopen
       PROVE  NeedActive'
  BY <1>16
     DEF NeedActive, Entering, Where, threadVars, Reopen
<1>17. ASSUME Arrive \/ Writable \/ Recv \/ PollTop \/ PollRelease \/ PollWait \/ PollSet
              \/ PollWake
       PROVE  NeedActive'
  BY <1>17
     DEF NeedActive, Entering, Where, threadVars, sockVars, Arrive, Writable, Recv, PollTop,
         PollRelease, PollWait, PollSet, PollWake
<1> QED BY <1>1, <1>2, <1>3, <1>4, <1>5, <1>6, <1>7, <1>8, <1>9, <1>10, <1>11, <1>12, <1>13,
           <1>14, <1>15, <1>16, <1>17 DEF Next, PollStep, ThreadStep

LEMMA LockInvStep ==
  ASSUME IInv, LockInv, OneWanted, Next
  PROVE  LockInv'
<1> USE TypeGroups, UsersAreNumbers, NoneAssumption, ThreadsAssumption DEF IInv
<1>1. ASSUME NEW a \in Threads, AddReader(a)
      PROVE  LockInv'
  BY <1>1
     DEF LockInv, AddReader
<1>2. ASSUME NEW a \in Threads, SioPin(a)
      PROVE  LockInv'
  BY <1>2
     DEF LockInv, SioPin
<1>3. ASSUME NEW a \in Threads, Sio(a)
      PROVE  LockInv'
  <2>1. PICK n \in Recvs : n = MaxAdds + recvd + 1
    BY <1>3, NextNumbers DEF Sio
  <2>2. Where(a)' = n /\ siosLock' = a
    BY <1>3, <2>1 DEF Sio, DropRegistration, Where, Enter, ThreadTypes, ArmPCs, DropPCs
  <2>3. \A h \in Users : Wanted(h)' => h = n
    BY <1>3, <2>1, NewlyWantedAlone DEF NewlyWanted
  <2> QED BY <2>2, <2>3 DEF LockInv
<1>4. ASSUME NEW a \in Threads,
             RemoveReader(a) \/ ReleaseFd(a)
      PROVE  LockInv'
  <2>1. Wanted(reader) /\ reader \in Users /\ reader' = None /\ need' = need /\ siosLock = None
    BY <1>4 DEF RemoveReader, ReleaseFd, Wanted, LoopTypes
  <2>2. \A h \in Users : ~Wanted(h)'
    BY <2>1 DEF OneWanted, Wanted, LoopTypes
  <2> QED BY <2>2 DEF LockInv
<1>5. ASSUME NEW a \in Threads, FlagRelease(a)
      PROVE  LockInv'
  BY <1>5
     DEF Wanted, sockVars, LockInv, Where, ArmPCs, DropPCs, ThreadTypes, ThreadsInv, regVars,
         Enter, Go, Idle, FlagRelease
<1>6. ASSUME NEW a \in Threads,
             Deregister(a) \/ Shutdown(a) \/ Park(a)
      PROVE  LockInv'
  BY <1>6
     DEF Wanted, sockVars, LockInv, Where, ArmPCs, DropPCs, ThreadTypes, ThreadsInv, regVars,
         Enter, Go, Idle, Deregister, Shutdown, Park
<1>7. ASSUME NEW a \in Threads, ShutdownWake(a)
      PROVE  LockInv'
  BY <1>7
     DEF Wanted, sockVars, LockInv, Where, ArmPCs, DropPCs, ThreadTypes, ThreadsInv, regVars,
         Enter, Go, Idle, ShutdownWake
<1>8. ASSUME NEW a \in Threads, NEW h \in Users, Dispatch(a, h)
      PROVE  LockInv'
  BY <1>8
     DEF Wanted, sockVars, LockInv, Where, ArmPCs, DropPCs, ThreadTypes, ThreadsInv, regVars,
         Enter, Go, Idle, Dispatch
<1>9. ASSUME NEW a \in Threads,
             RunEnd(a) \/ ArmCheck(a) \/ ArmLoad(a) \/ ArmStore(a)
      PROVE  LockInv'
  BY <1>9
     DEF Wanted, sockVars, LockInv, Where, ArmPCs, DropPCs, ThreadTypes, ThreadsInv, regVars,
         Enter, Go, Idle, RunEnd, ArmCheck, ArmLoad, ArmStore
<1>10. ASSUME NEW a \in Threads,
              ArmTick(a) \/ ArmKernel(a) \/ Clear(a)
       PROVE  LockInv'
  BY <1>10
     DEF Wanted, sockVars, LockInv, Where, ArmPCs, DropPCs, ThreadTypes, ThreadsInv, regVars,
         Enter, Go, Idle, ArmTick, ArmKernel, Clear
<1>11. ASSUME NEW a \in Threads, CancelOld(a)
       PROVE  LockInv'
  BY <1>11
     DEF Wanted, sockVars, LockInv, Where, ArmPCs, DropPCs, ThreadTypes, ThreadsInv, regVars,
         Enter, Go, Idle, CancelOld
<1>12. ASSUME NEW a \in Threads, SockTry(a)
       PROVE  LockInv'
  <2>1. \A h \in Users : Wanted(h)' => Wanted(h)
    BY <1>12 DEF SockTry, Wanted, LoopTypes, ThreadsInv, regVars
  <2>2. siosLock' = siosLock /\ \A b \in Threads : siosLock = b => Where(b)' = Where(b)
    BY <1>12 DEF SockTry, Where, ThreadsInv, ThreadTypes, regVars, Go, Idle, Enter, DropPCs
  <2> QED BY <2>1, <2>2 DEF LockInv
<1>13. ASSUME NEW r \in Recvs, CancelRecv(r)
       PROVE  LockInv'
  BY <1>13
     DEF LockInv, Wanted, LoopTypes, Where, threadVars, regVars, CancelRecv
<1>14. ASSUME Reopen
       PROVE  LockInv'
  BY <1>14
     DEF LockInv, Wanted, Where, threadVars, regVars, Reopen
<1>15. ASSUME Arrive \/ Writable \/ Recv \/ PollTop \/ PollRelease \/ PollWait \/ PollSet
              \/ PollWake \/ PollCall
       PROVE  LockInv'
  BY <1>15
     DEF LockInv, Wanted, Where, threadVars, regVars, sockVars, Arrive, Writable, Recv, PollTop,
         PollRelease, PollWait, PollSet, PollWake, PollCall
<1> QED BY <1>1, <1>2, <1>3, <1>4, <1>5, <1>6, <1>7, <1>8, <1>9, <1>10, <1>11, <1>12, <1>13,
           <1>14, <1>15 DEF Next, PollStep, ThreadStep

LEMMA OwnerStep ==
  ASSUME IInv, OwnerInv, Next
  PROVE  OwnerInv'
<1> USE TypeGroups, UsersAreNumbers, NoneAssumption, ThreadsAssumption DEF IInv, DropPCs
<1>a. ASSUME NEW a \in Threads, siosLock = None
      PROVE  \A b \in Threads : pc[b] \notin DropPCs
  BY <1>a DEF ThreadsInv
<1>1. ASSUME NEW a \in Threads, AddReader(a)
      PROVE  OwnerInv'
  BY <1>1, <1>a DEF OwnerInv, AddReader, Register, Enter, ThreadTypes
<1>2. ASSUME NEW a \in Threads, SioPin(a)
      PROVE  OwnerInv'
  <2>1. siosLock = a /\ \A b \in Threads : b # a => pc[b] \notin DropPCs
    BY <1>2 DEF SioPin, ThreadsInv
  <2> QED BY <1>2, <2>1 DEF OwnerInv, SioPin, Register, Go, Enter, ThreadTypes
<1>3. ASSUME NEW a \in Threads, Sio(a)
      PROVE  OwnerInv'
  BY <1>3, <1>a DEF OwnerInv, Sio, DropRegistration, Enter, ThreadTypes, kernelVars
<1>4. ASSUME NEW a \in Threads, RemoveReader(a) \/ ReleaseFd(a)
      PROVE  OwnerInv'
  BY <1>4, <1>a
     DEF OwnerInv, RemoveReader, ReleaseFd, DropRegistration, Enter, ThreadTypes, kernelVars
<1>5. ASSUME NEW a \in Threads, FlagRelease(a)
      PROVE  OwnerInv'
  BY <1>5 DEF OwnerInv, FlagRelease, Enter, Idle, ThreadTypes, kernelVars, sockVars
<1>6. ASSUME NEW a \in Threads, Deregister(a)
      PROVE  OwnerInv'
  BY <1>6 DEF OwnerInv, Deregister, Go, Enter, ThreadTypes, regVars, sockVars
<1>7. ASSUME Reopen
      PROVE  OwnerInv'
  <2>1. owner # sock' /\ UNCHANGED <<pc, current, siosLock, owner>>
    BY <1>7 DEF Reopen, NumberTypes, regVars, threadVars
  <2>2. ASSUME NEW a \in Threads, pc[a] = "sio" PROVE FALSE
    <3>1. on[a] \in Recvs /\ Busy(on[a])
      BY <2>2 DEF ThreadsInv, Busy, Where, ArmPCs
    <3> QED BY <1>7, <3>1 DEF NeedInv, Reopen, Unread, Receiving
  <2>3. siosLock # None => current = None
    BY <2>2 DEF OwnerInv, ThreadsInv, LoopTypes
  <2> QED BY <2>1, <2>3 DEF OwnerInv
<1>8. ASSUME NEW a \in Threads, Shutdown(a) \/ ShutdownWake(a) \/ Park(a)
      PROVE  OwnerInv'
  BY <1>8
     DEF OwnerInv, Shutdown, ShutdownWake, Park, Go, Enter, ThreadTypes, regVars, sockVars,
         kernelVars
<1>9. ASSUME NEW a \in Threads,
             RunEnd(a) \/ ArmCheck(a) \/ ArmLoad(a) \/ ArmStore(a) \/ ArmTick(a)
             \/ ArmKernel(a) \/ Clear(a) \/ CancelOld(a) \/ SockTry(a)
      PROVE  OwnerInv'
  BY <1>9
     DEF OwnerInv, RunEnd, ArmCheck, ArmLoad, ArmStore, ArmTick, ArmKernel, Clear, CancelOld,
         SockTry, Go, Idle, Enter, ThreadTypes, regVars, sockVars, kernelVars
<1>10. ASSUME NEW a \in Threads, NEW h \in Users, Dispatch(a, h)
       PROVE  OwnerInv'
  BY <1>10 DEF OwnerInv, Dispatch, Go, Idle, Enter, ThreadTypes, regVars, sockVars, kernelVars
<1>11. ASSUME NEW r \in Recvs, CancelRecv(r)
       PROVE  OwnerInv'
  BY <1>11 DEF OwnerInv, CancelRecv, regVars, kernelVars, threadVars
<1>12. ASSUME \/ Arrive \/ Writable \/ Recv \/ PollWait \/ PollTop \/ PollRelease
              \/ PollSet \/ PollWake \/ PollCall
       PROVE  OwnerInv'
  BY <1>12
     DEF OwnerInv, Arrive, Writable, Recv, PollWait, PollTop, PollRelease, PollSet, PollWake,
         PollCall, regVars, sockVars, kernelVars, threadVars
<1> QED BY <1>1, <1>2, <1>3, <1>4, <1>5, <1>6, <1>7, <1>8, <1>9, <1>10, <1>11, <1>12
        DEF Next, PollStep, ThreadStep

LEMMA RegInvStep ==
  ASSUME IInv, RegInv, LockInv, OwnerInv, Next
  PROVE  RegInv'
<1> USE TypeGroups, UsersAreNumbers, NoneAssumption, ThreadsAssumption DEF IInv
<1>1. ASSUME NEW a \in Threads, AddReader(a)
      PROVE  RegInv'
  <2>1. PICK n \in Handles : n = added + 1
    BY <1>1, NextNumbers DEF AddReader
  <2>2. \A h \in Users : Wanted(h)' => h = n
    BY <1>1, <2>1, NewlyWantedAlone DEF NewlyWanted
  <2>3. ~stale' => sio'[n] = current' /\ polled' = current'
    BY <1>1, <2>1 DEF AddReader, Register, UserTypes
  <2> QED BY <2>2, <2>3 DEF RegInv
<1>2. ASSUME NEW a \in Threads, SioPin(a)
      PROVE  RegInv'
  <2>1. on[a] \in Recvs /\ Where(a) = on[a] /\ siosLock = a
    BY <1>2 DEF SioPin, ThreadsInv, Where, ArmPCs
  <2>2. \A h \in Users : Wanted(h)' => h = on[a]
    BY <1>2, <2>1 DEF LockInv, Wanted, SioPin
  <2>3. ~stale' => sio'[on[a]] = current' /\ polled' = current'
    BY <1>2, <2>1 DEF SioPin, Register, UserTypes, OwnerInv
  <2> QED BY <2>2, <2>3 DEF RegInv
<1>3. ASSUME NEW a \in Threads, Sio(a)
      PROVE  RegInv'
  BY <1>3
     DEF RegInv, DropRegistration, Sio
<1>4. ASSUME NEW a \in Threads,
             RemoveReader(a) \/ ReleaseFd(a)
      PROVE  RegInv'
  BY <1>4
     DEF DropRegistration, kernelVars, LoopTypes, RegInv, Wanted, RemoveReader, ReleaseFd
<1>5. ASSUME NEW a \in Threads, FlagRelease(a)
      PROVE  RegInv'
  <2>1. siosLock = a /\ (siosLock' = None => Where(a) = None)
    BY <1>5 DEF FlagRelease, ThreadsInv, Where, ArmPCs, DropPCs
  <2>2. \A h \in Users : Wanted(h)' => Wanted(h)
    BY <1>5 DEF FlagRelease, Wanted, sockVars
  <2> QED BY <2>1, <2>2 DEF RegInv, LockInv
<1>6. ASSUME NEW a \in Threads, Deregister(a)
      PROVE  RegInv'
  BY <1>6
     DEF RegInv, ThreadsInv, DropPCs, regVars, Deregister
<1>7. ASSUME Reopen
      PROVE  RegInv'
  BY <1>7
     DEF Unread, Receiving, LoopTypes, regVars, RegInv, Wanted, Reopen
<1>8. ASSUME NEW a \in Threads, SockTry(a)
      PROVE  RegInv'
  BY <1>8
     DEF LoopTypes, ThreadsInv, regVars, RegInv, Wanted, SockTry
<1>9. ASSUME NEW r \in Recvs, CancelRecv(r)
      PROVE  RegInv'
  BY <1>9
     DEF kernelVars, LoopTypes, regVars, RegInv, Wanted, CancelRecv
<1>10. ASSUME Arrive \/ Writable \/ Recv \/ PollWait
       PROVE  RegInv'
  BY <1>10
     DEF regVars, sockVars, RegInv, Wanted, Arrive, Writable, Recv, PollWait
<1>11. ASSUME PollTop \/ PollRelease
       PROVE  RegInv'
  BY <1>11
     DEF kernelVars, sockVars, RegInv, Wanted, PollTop, PollRelease
<1>12. ASSUME NEW a \in Threads, Park(a)
       PROVE  RegInv'
  BY <1>12
     DEF kernelVars, sockVars, RegInv, Wanted, Park
<1>13. ASSUME PollSet \/ PollWake \/ PollCall
       PROVE  RegInv'
  BY <1>13
     DEF kernelVars, sockVars, regVars, RegInv, Wanted, PollSet, PollWake, PollCall
<1>14. ASSUME NEW a \in Threads,
              RunEnd(a) \/ ArmCheck(a) \/ ArmLoad(a) \/ ArmStore(a) \/ ArmTick(a)
              \/ ArmKernel(a) \/ Clear(a) \/ CancelOld(a) \/ Shutdown(a) \/ ShutdownWake(a)
       PROVE  RegInv'
  BY <1>14
     DEF kernelVars, sockVars, regVars, RegInv, Wanted, RunEnd, ArmCheck, ArmLoad, ArmStore,
         ArmTick, ArmKernel, Clear, CancelOld, Shutdown, ShutdownWake
<1>15. ASSUME NEW a \in Threads, NEW h \in Users, Dispatch(a, h)
       PROVE  RegInv'
  BY <1>15
     DEF kernelVars, sockVars, regVars, RegInv, Wanted, Dispatch
<1> QED BY <1>1, <1>2, <1>3, <1>4, <1>5, <1>6, <1>7, <1>8, <1>9, <1>10, <1>11, <1>12, <1>13,
           <1>14, <1>15 DEF Next, PollStep, ThreadStep

LEMMA SpoiledStep ==
  ASSUME Next, ~spoiled'
  PROVE  ~spoiled
<1>1. ASSUME Arrive \/ Writable \/ Recv \/ Reopen \/ PollTop \/ PollRelease \/ PollWait
             \/ PollSet \/ PollWake \/ PollCall
      PROVE  ~spoiled
  BY <1>1
     DEF Arrive, Writable, Recv, Reopen, PollTop, PollRelease, PollWait, PollSet, PollWake,
         PollCall
<1>2. ASSUME NEW r \in Recvs, CancelRecv(r)
      PROVE  ~spoiled
  BY <1>2
     DEF CancelRecv
<1>3. ASSUME NEW a \in Threads,
             RunEnd(a) \/ ArmCheck(a) \/ ArmLoad(a) \/ ArmStore(a) \/ ArmTick(a) \/ ArmKernel(a)
             \/ SioPin(a) \/ SockTry(a) \/ Clear(a) \/ CancelOld(a) \/ Deregister(a)
             \/ Shutdown(a) \/ ShutdownWake(a) \/ Park(a) \/ FlagRelease(a) \/ AddReader(a)
             \/ RemoveReader(a) \/ ReleaseFd(a) \/ Sio(a)
      PROVE  ~spoiled
  BY <1>3
     DEF RunEnd, ArmCheck, ArmLoad, ArmStore, ArmTick, ArmKernel, SioPin, SockTry, Clear,
         CancelOld, Deregister, Shutdown, ShutdownWake, Park, FlagRelease, AddReader,
         RemoveReader, ReleaseFd, Sio
<1>4. ASSUME NEW a \in Threads, NEW h \in Users, Dispatch(a, h)
      PROVE  ~spoiled
  BY <1>4
     DEF Dispatch
<1> QED BY <1>1, <1>2, <1>3, <1>4 DEF Next, PollStep, ThreadStep

\* Those that arm and are not outdated: the one that is wanted, or the one it replaces while
\* the thread that has replaced it is still to cancel it.
LEMMA ArmsWanted ==
  ASSUME IInv, NEW g \in Users, ~Outdated(g)
  PROVE  \/ Wanted(g)
         \/ /\ reader \in Handles /\ Wanted(reader)
            /\ \E c \in Threads : pc[c] = "cancelold" /\ Where(c) = reader /\ old[c] = g
<1> USE UsersAreNumbers DEF IInv
<1>1. CASE g \in Recvs
  BY <1>1 DEF Outdated, NeedInv, Wanted
<1>2. CASE g \in Handles /\ g # reader
  <2>1. PICK c \in Threads : pc[c] = "cancelold" /\ on[c] = reader /\ old[c] = g
    BY <1>2 DEF Outdated
  <2>2. reader \in Handles /\ Where(c) = reader
    BY <2>1 DEF ThreadsInv, Where
  <2> QED BY <2>1, <2>2 DEF Wanted
<1>3. CASE g \in Handles /\ g = reader
  BY <1>3 DEF Wanted
<1> QED BY <1>1, <1>2, <1>3

LEMMA StoredIsWanted ==
  ASSUME IInv, OneWanted, NEW g \in Users, NEW h \in Users, Wanted(h), ~Outdated(g), g # h
  PROVE  Busy(h)
<1>1. ~Wanted(g)
  BY DEF OneWanted
<1>2. PICK c \in Threads : Where(c) = reader /\ reader \in Users /\ Wanted(reader)
  BY <1>1, ArmsWanted, UsersAreNumbers
<1>3. reader = h
  BY <1>2 DEF OneWanted
<1> QED BY <1>2, <1>3 DEF Busy

LEMMA OneArms ==
  ASSUME IInv, OneWanted, NEW a \in Threads, NEW b \in Threads, a # b,
         pc[a] = "clear", pc[b] = "tick", ~Outdated(on[a]), ~Outdated(on[b])
  PROVE  FALSE
<1>1. /\ on[a] \in Users /\ on[b] \in Users /\ Where(a) = on[a] /\ Where(b) = on[b]
      /\ on[a] # on[b]
  BY DEF IInv, ThreadsInv, Where, ArmPCs, OnePlace
<1>2. \A c, d \in Threads, h \in Users : Where(c) = h /\ Where(d) = h => c = d
  BY DEF IInv, OnePlace
<1>3. CASE Wanted(on[a]) /\ Wanted(on[b])
  BY <1>1, <1>3 DEF OneWanted
<1>4. CASE ~Wanted(on[a]) \/ ~Wanted(on[b])
  <2>1. PICK c \in Threads : /\ reader \in Users /\ Wanted(reader)
                             /\ pc[c] = "cancelold" /\ Where(c) = reader
                             /\ \/ old[c] = on[a] /\ ~Wanted(on[a])
                                \/ old[c] = on[b] /\ ~Wanted(on[b])
    BY <1>1, <1>4, ArmsWanted, UsersAreNumbers
  <2>2. reader # on[a] /\ reader # on[b]
    BY <1>1, <1>2, <2>1
  <2>3. ~Wanted(on[a]) /\ ~Wanted(on[b])
    BY <1>1, <2>1, <2>2 DEF OneWanted
  <2>4. PICK d \in Threads : pc[d] = "cancelold" /\ Where(d) = reader /\ old[d] = on[a]
    BY <1>1, <2>3, ArmsWanted
  <2>5. PICK e \in Threads : pc[e] = "cancelold" /\ Where(e) = reader /\ old[e] = on[b]
    BY <1>1, <2>3, ArmsWanted
  <2>6. d = e
    BY <1>2, <2>1, <2>4, <2>5
  <2> QED BY <1>1, <2>4, <2>5, <2>6
<1> QED BY <1>3, <1>4

\* A wanted handle, or task, that waits is active.
LEMMA WaitingIsActive ==
  ASSUME IInv, ReaderInv, NeedActive, NEW h \in Users, Wanted(h), ~Busy(h), queued[h] = 0
  PROVE  active[h]
BY UsersAreNumbers DEF Wanted, ReaderInv, NeedActive, Busy

LEMMA HeldStep ==
  ASSUME IInv, WokenInv, ReaderInv, NeedActive, OneWanted, Held, Next, Kinds
  PROVE  Held'
<1> SUFFICES ASSUME ~spoiled', NEW h \in Users, Wanted(h)'
             PROVE  (Busy(h) \/ queued[h] > 0 \/ woken = h \/ \E s \in Regs : slot[s] = h)'
  BY DEF Held
<1> USE UsersAreNumbers, NoneAssumption
<1>t. slot \in [Regs -> Users \cup {None}] /\ queued \in [Users -> Nat]
  BY DEF IInv, TypeOK
<1>1. CASE \E a \in Threads : NewlyWanted(a, h)
  <2>1. PICK a \in Threads : NewlyWanted(a, h)
    BY <1>1
  <2>2. Where(a)' = h
    BY <2>1, TypeGroups
       DEF NewlyWanted, AddReader, Sio, DropRegistration, Enter, Where, ThreadTypes, IInv, ArmPCs,
           DropPCs
  <2> QED BY <2>2 DEF Busy
<1>2. CASE ~\E a \in Threads : NewlyWanted(a, h)
  <2>1. Wanted(h) /\ (Busy(h) \/ queued[h] > 0 \/ woken = h \/ \E s \in Regs : slot[s] = h)
    BY <1>2, WantedStep, SpoiledStep DEF Held
  <2>2. woken = h \/ (\E s \in Regs : slot[s] = h) => active[h] /\ ~Busy(h) /\ queued[h] = 0
    BY <1>t, <2>1, WaitingIsActive DEF IInv, OnePlace
  <2>3. ASSUME Nothing \/ Calls
        PROVE  (Busy(h) \/ queued[h] > 0 \/ woken = h \/ \E s \in Regs : slot[s] = h)'
    BY <1>t, <2>1, <2>2, <2>3 DEF Nothing, Calls, Resumes, Stay, Busy, WokenInv
  <2>4. ASSUME NEW a \in Threads, Leaves(a) \/ Requeues(a)
        PROVE  (Busy(h) \/ queued[h] > 0 \/ woken = h \/ \E s \in Regs : slot[s] = h)'
    <3>1. CASE Leaves(a)
      <4>1. Where(a) # h
        BY <2>1, <3>1 DEF Leaves, Wanted, ReaderInv
      <4> QED BY <2>1, <3>1, <4>1 DEF Leaves, Moves, Busy
    <3>2. CASE Requeues(a)
      BY <1>t, <2>1, <3>2 DEF Requeues, Moves, Busy
    <3> QED BY <2>4, <3>1, <3>2
  <2>5. ASSUME NEW a \in Threads, NEW g \in Users, Makes(a, g) \/ Starts(a, g)
        PROVE  (Busy(h) \/ queued[h] > 0 \/ woken = h \/ \E s \in Regs : slot[s] = h)'
    <3>1. CASE Makes(a, g)
      BY <2>1, <3>1 DEF Makes, Moves, Busy
    <3>2. CASE Starts(a, g)
      <4>1. Moves(a, g) \/ (Stay /\ g # h)
        BY <2>1, <3>2 DEF Starts, Wanted, ReaderInv
      <4> QED BY <1>t, <2>1, <3>2, <4>1 DEF Starts, Moves, Stay, Busy
    <3> QED BY <2>5, <3>1, <3>2
  <2>6. ASSUME NEW a \in Threads, NEW s \in Regs, Stores(a, s)
        PROVE  (Busy(h) \/ queued[h] > 0 \/ woken = h \/ \E t \in Regs : slot[t] = h)'
    <3>1. CASE Where(a) = h
      BY <1>t, <2>6, <3>1 DEF Stores
    <3>2. CASE Where(a) # h
      <4>1. slot[s] # h
        BY <2>1, <2>2, <2>6, <3>2, StoredIsWanted DEF Stores
      <4> QED BY <1>t, <2>1, <2>6, <3>2, <4>1 DEF Stores, Moves, Busy
    <3> QED BY <3>1, <3>2
  <2>7. ASSUME NEW s \in Regs, Takes(s)
        PROVE  (Busy(h) \/ queued[h] > 0 \/ woken = h \/ \E t \in Regs : slot[t] = h)'
    BY <1>t, <2>1, <2>7 DEF Takes, Stay, Busy, WokenInv
  <2>8. ASSUME NEW s \in Regs, Wakes(s)
        PROVE  (Busy(h) \/ queued[h] > 0 \/ woken = h \/ \E t \in Regs : slot[t] = h)'
    BY <1>t, <2>1, <2>2, <2>8 DEF Wakes, Resumes, Stay, Busy
  <2> QED BY <2>3, <2>4, <2>5, <2>6, <2>7, <2>8 DEF Kinds
<1> QED BY <1>1, <1>2

LEMMA ReactivatedStep ==
  ASSUME IInv, Next, NEW g \in Users, ~active[g], active'[g]
  PROVE  ~Made(g) \/ queued[g] > 0 \/ \E b \in Threads : Where(b) = g /\ pc[b] \in {"sio", "try"}
<1> USE TypeGroups, UsersAreNumbers, NoneAssumption, ThreadsAssumption DEF IInv
<1>1. ASSUME NEW a \in Threads, AddReader(a)
      PROVE  ~Made(g) \/ queued[g] > 0 \/ \E b \in Threads : Where(b) = g /\ pc[b] \in {"sio", "try"}
  BY <1>1, NextNumbers
     DEF Made, UserTypes, NumberTypes, AddReader
<1>2. ASSUME NEW a \in Threads,
             SioPin(a) \/ SockTry(a)
      PROVE  ~Made(g) \/ queued[g] > 0 \/ \E b \in Threads : Where(b) = g /\ pc[b] \in {"sio", "try"}
  BY <1>2
     DEF Where, ArmPCs, UserTypes, SioPin, SockTry
<1>3. ASSUME NEW a \in Threads, NEW h \in Users, Dispatch(a, h)
      PROVE  ~Made(g) \/ queued[g] > 0 \/ \E b \in Threads : Where(b) = g /\ pc[b] \in {"sio", "try"}
  BY <1>3
     DEF UserTypes, Dispatch
<1>4. ASSUME PollCall
      PROVE  ~Made(g) \/ queued[g] > 0 \/ \E b \in Threads : Where(b) = g /\ pc[b] \in {"sio", "try"}
  BY <1>4
     DEF Wake, SetResultUnlessDone, Cancel, UserTypes, PollCall
<1>5. ASSUME NEW a \in Threads, ShutdownWake(a)
      PROVE  ~Made(g) \/ queued[g] > 0 \/ \E b \in Threads : Where(b) = g /\ pc[b] \in {"sio", "try"}
  BY <1>5
     DEF Wake, SetResultUnlessDone, Cancel, UserTypes, ShutdownWake
<1>6. ASSUME NEW a \in Threads,
             CancelOld(a) \/ RemoveReader(a) \/ ReleaseFd(a)
      PROVE  ~Made(g) \/ queued[g] > 0 \/ \E b \in Threads : Where(b) = g /\ pc[b] \in {"sio", "try"}
  BY <1>6
     DEF Cancel, UserTypes, CancelOld, RemoveReader, ReleaseFd
<1>7. ASSUME NEW r \in Recvs, CancelRecv(r)
      PROVE  ~Made(g) \/ queued[g] > 0 \/ \E b \in Threads : Where(b) = g /\ pc[b] \in {"sio", "try"}
  BY <1>7
     DEF Cancel, UserTypes, CancelRecv
<1>8. ASSUME Arrive \/ Writable \/ Recv \/ Reopen \/ PollTop \/ PollRelease \/ PollWait
             \/ PollSet \/ PollWake
      PROVE  ~Made(g) \/ queued[g] > 0 \/ \E b \in Threads : Where(b) = g /\ pc[b] \in {"sio", "try"}
  BY <1>8
     DEF Arrive, Writable, Recv, Reopen, PollTop, PollRelease, PollWait, PollSet, PollWake
<1>9. ASSUME NEW a \in Threads,
             RunEnd(a) \/ ArmCheck(a) \/ ArmLoad(a) \/ ArmStore(a) \/ ArmTick(a) \/ ArmKernel(a)
             \/ Clear(a) \/ Deregister(a) \/ Shutdown(a) \/ Park(a) \/ FlagRelease(a) \/ Sio(a)
      PROVE  ~Made(g) \/ queued[g] > 0 \/ \E b \in Threads : Where(b) = g /\ pc[b] \in {"sio", "try"}
  BY <1>9
     DEF RunEnd, ArmCheck, ArmLoad, ArmStore, ArmTick, ArmKernel, Clear, Deregister, Shutdown,
         Park, FlagRelease, Sio
<1> QED BY <1>1, <1>2, <1>3, <1>4, <1>5, <1>6, <1>7, <1>8, <1>9 DEF Next, PollStep, ThreadStep

Replaced(h) ==
  h # reader /\ \A a \in Threads : <<pc[a], on[a], old[a]>> # <<"cancelold", reader, h>>

LEMMA ReplacedStep ==
  ASSUME IInv, ReaderInv, Next, NEW g \in Handles, Made(g), Replaced(g)
  PROVE  Replaced(g)'
<1> USE TypeGroups, UsersAreNumbers, NoneAssumption, ThreadsAssumption DEF IInv
<1>1. ASSUME NEW a \in Threads, AddReader(a)
      PROVE  Replaced(g)'
  <2>1. PICK n \in Handles : n = added + 1
    BY <1>1, NextNumbers DEF AddReader
  <2>2. g # n /\ \A c \in Threads : pc[c] = "cancelold" => on[c] # n
    BY <2>1 DEF Made, ReaderInv, ThreadsInv, NumberTypes
  <2>3. reader' = n /\ old'[a] = reader
    BY <1>1, <2>1 DEF AddReader, ThreadTypes
  <2>4. \A c \in Threads \ {a} : pc'[c] = pc[c] /\ on'[c] = on[c]
    BY <1>1 DEF AddReader, Enter, ThreadTypes
  <2> QED BY <2>2, <2>3, <2>4 DEF Replaced
<1>2. ASSUME NEW a \in Threads,
             RemoveReader(a) \/ ReleaseFd(a)
      PROVE  Replaced(g)'
  <2>1. reader' = None
    BY <1>2 DEF RemoveReader, ReleaseFd
  <2>2. \A c \in Threads : pc'[c] = "cancelold" => on'[c] \in Handles
    BY <1>2 DEF RemoveReader, ReleaseFd, DropRegistration, Enter, ThreadTypes, ThreadsInv
  <2> QED BY <2>1, <2>2 DEF Replaced
<1>3. ASSUME NEW a \in Threads, Sio(a)
      PROVE  Replaced(g)'
  BY <1>3
     DEF Replaced, DropRegistration, ThreadTypes, Enter, Go, Idle, Sio
<1>4. ASSUME NEW a \in Threads, SioPin(a)
      PROVE  Replaced(g)'
  BY <1>4
     DEF Replaced, ThreadTypes, Enter, Go, Idle, SioPin
<1>5. ASSUME NEW a \in Threads, CancelOld(a)
      PROVE  Replaced(g)'
  BY <1>5
     DEF Replaced, ThreadTypes, regVars, Enter, Go, Idle, CancelOld
<1>6. ASSUME NEW a \in Threads, FlagRelease(a)
      PROVE  Replaced(g)'
  BY <1>6
     DEF Replaced, ThreadTypes, Enter, Go, Idle, FlagRelease
<1>7. ASSUME NEW a \in Threads, NEW h \in Users, Dispatch(a, h)
      PROVE  Replaced(g)'
  BY <1>7
     DEF Replaced, ThreadTypes, regVars, Enter, Go, Idle, Dispatch
<1>8. ASSUME NEW a \in Threads,
             RunEnd(a) \/ ArmCheck(a) \/ ArmLoad(a) \/ ArmStore(a)
      PROVE  Replaced(g)'
  BY <1>8
     DEF Replaced, ThreadTypes, regVars, Enter, Go, Idle, RunEnd, ArmCheck, ArmLoad, ArmStore
<1>9. ASSUME NEW a \in Threads,
             ArmTick(a) \/ ArmKernel(a) \/ SockTry(a) \/ Clear(a)
      PROVE  Replaced(g)'
  BY <1>9
     DEF Replaced, ThreadTypes, regVars, Enter, Go, Idle, ArmTick, ArmKernel, SockTry, Clear
<1>10. ASSUME NEW a \in Threads,
              Deregister(a) \/ Shutdown(a) \/ ShutdownWake(a) \/ Park(a)
       PROVE  Replaced(g)'
  BY <1>10
     DEF Replaced, ThreadTypes, regVars, Enter, Go, Idle, Deregister, Shutdown, ShutdownWake, Park
<1>11. ASSUME Arrive \/ Writable \/ Recv \/ Reopen \/ PollTop \/ PollRelease \/ PollWait
              \/ PollSet \/ PollWake \/ PollCall
       PROVE  Replaced(g)'
  BY <1>11
     DEF Replaced, threadVars, regVars, Arrive, Writable, Recv, Reopen, PollTop, PollRelease, PollWait,
         PollSet, PollWake, PollCall
<1>12. ASSUME NEW r \in Recvs, CancelRecv(r)
       PROVE  Replaced(g)'
  BY <1>12
     DEF Replaced, threadVars, regVars, CancelRecv
<1> QED
  BY <1>1, <1>2, <1>3, <1>4, <1>5, <1>6, <1>7, <1>8, <1>9, <1>10, <1>11, <1>12
     DEF Next, PollStep, ThreadStep

\* A handle, or a task, that is arming stays outdated.
LEMMA OutdatedStep ==
  ASSUME IInv, ReaderInv, Next, NEW a \in Threads, pc[a] = "clear", NEW h \in Users, on[a] = h,
         Outdated(h)
  PROVE  Outdated(h)'
<1>1. Where(a) = h /\ Busy(h) /\ queued[h] = 0 /\ Made(h)
  BY DEF IInv, Where, Busy, ArmPCs, OnePlace, Unmade, Nowhere
<1>2. CASE ~active[h]
  <2>1. ~\E b \in Threads : Where(b) = h /\ pc[b] \in {"sio", "try"}
    BY <1>1 DEF IInv, OnePlace
  <2>2. ~active'[h]
    BY <1>1, <1>2, <2>1, ReactivatedStep
  <2> QED BY <2>2 DEF Outdated
<1>3. CASE h \in Handles /\ Replaced(h)
  BY <1>1, <1>3, ReplacedStep DEF Outdated, Replaced
<1> QED BY <1>2, <1>3 DEF Outdated, Replaced

LEMMA ReadyStep ==
  ASSUME IInv, ReadyInv, ClearInv, Next, ~spoiled'
  PROVE  ReadyInv'
<1> USE TypeGroups, UsersAreNumbers, NoneAssumption, ThreadsAssumption DEF IInv
<1>s. ~spoiled
  BY SpoiledStep
<1>1. ASSUME Arrive \/ Writable
      PROVE  ReadyInv'
  BY <1>1, <1>s
     DEF Edge, ReadyInv, Coming, Arrive, Writable
<1>2. ASSUME Recv
      PROVE  ReadyInv'
  BY <1>2, <1>s
     DEF NumberTypes, sioVars, pollVars, ReadyInv, Coming, Recv
<1>3. ASSUME NEW a \in Threads, SockTry(a)
      PROVE  ReadyInv'
  BY <1>3, <1>s
     DEF NumberTypes, sioVars, pollVars, ReadyInv, Coming, SockTry
<1>4. ASSUME Reopen
      PROVE  ReadyInv'
  BY <1>4, <1>s
     DEF ReadyInv, Coming, Reopen
<1>5. ASSUME PollTop \/ PollRelease \/ PollCall
      PROVE  ReadyInv'
  BY <1>5, <1>s
     DEF kernelVars, sioVars, ReadyInv, Coming, PollTop, PollRelease, PollCall
<1>6. ASSUME PollWait
      PROVE  ReadyInv'
  <2>1. UNCHANGED <<data, polled, ready, slot>>
    BY <1>6 DEF PollWait, sioVars
  <2>2. CASE edge' = FALSE /\ token' = polled /\ event' = ReadinessFromEvent /\ poll' = "set"
    <3>1. data > 0 => event'
      BY <2>2 DEF ReadinessFromEvent
    <3> QED BY <1>s, <2>1, <2>2, <3>1 DEF ReadyInv, Coming
  <2>3. CASE UNCHANGED <<edge, token, event>>
    BY <1>6, <1>s, <2>1, <2>3 DEF PollWait, ReadyInv, Coming
  <2> QED BY <1>6, <2>2, <2>3 DEF PollWait
<1>7. ASSUME PollSet
      PROVE  ReadyInv'
  BY <1>7, <1>s
     DEF kernelVars, SioTypes, PollTypes, ReadyInv, Coming, PollSet
<1>8. ASSUME PollWake
      PROVE  ReadyInv'
  BY <1>8, <1>s
     DEF kernelVars, ReadyInv, Coming, PollWake
<1>9. ASSUME NEW a \in Threads, Clear(a)
      PROVE  ReadyInv'
  <2>1. on[a] \in Users /\ sio[on[a]] \in Regs
    BY <1>9 DEF Clear, ThreadsInv, SioInv, ArmPCs
  <2>2. PICK s \in Regs : s = sio[on[a]]
    BY <2>1
  <2>3. tick[s] = tickR[s] => ~Outdated(on[a])
    BY <1>9, <2>2 DEF Clear
  <2>4. tick[s] = tickR[s] /\ polled = s /\ data > 0 => Coming(s)
    BY <1>9, <2>2, <2>3, <1>s DEF Clear, ClearInv
  <2>5. \A t \in Regs : ready'[t] = ready[t] \/ (t = s /\ tick[s] = tickR[s])
    BY <1>9, <2>2 DEF Clear, SioTypes
  <2>6. data' = data /\ polled' = polled /\ \A t \in Regs : Coming(t)' = Coming(t)
    BY <1>9 DEF Clear, Coming, kernelVars, pollVars
  <2> QED BY <1>s, <2>4, <2>5, <2>6 DEF ReadyInv
<1>10. ASSUME NEW a \in Threads, AddReader(a)
       PROVE  ReadyInv'
  BY <1>10, <1>s
     DEF Register, sioVars, pollVars, ReadyInv, Coming, AddReader
<1>11. ASSUME NEW a \in Threads, SioPin(a)
       PROVE  ReadyInv'
  BY <1>11, <1>s
     DEF Register, sioVars, pollVars, ReadyInv, Coming, SioPin
<1>12. ASSUME NEW a \in Threads, Deregister(a)
       PROVE  ReadyInv'
  BY <1>12, <1>s
     DEF ReadyInv, Coming, Deregister
<1>13. ASSUME NEW r \in Recvs, CancelRecv(r)
       PROVE  ReadyInv'
  BY <1>13, <1>s
     DEF kernelVars, sioVars, pollVars, ReadyInv, Coming, CancelRecv
<1>14. ASSUME NEW a \in Threads,
              RunEnd(a) \/ ArmCheck(a) \/ ArmLoad(a) \/ ArmStore(a) \/ ArmTick(a)
              \/ ArmKernel(a) \/ CancelOld(a) \/ Shutdown(a) \/ ShutdownWake(a) \/ Park(a)
              \/ FlagRelease(a) \/ RemoveReader(a) \/ ReleaseFd(a) \/ Sio(a)
       PROVE  ReadyInv'
  BY <1>14, <1>s
     DEF kernelVars, sioVars, pollVars, ReadyInv, Coming, RunEnd, ArmCheck, ArmLoad, ArmStore,
         ArmTick, ArmKernel, CancelOld, Shutdown, ShutdownWake, Park, FlagRelease, RemoveReader,
         ReleaseFd, Sio
<1>15. ASSUME NEW a \in Threads, NEW h \in Users, Dispatch(a, h)
       PROVE  ReadyInv'
  BY <1>15, <1>s
     DEF kernelVars, sioVars, pollVars, ReadyInv, Coming, Dispatch
<1> QED BY <1>1, <1>2, <1>3, <1>4, <1>5, <1>6, <1>7, <1>8, <1>9, <1>10, <1>11, <1>12, <1>13,
           <1>14, <1>15 DEF Next, PollStep, ThreadStep

LEMMA SlotStep ==
  ASSUME IInv, SlotInv, ReadyInv, Next, ~spoiled'
  PROVE  SlotInv'
<1> USE TypeGroups, UsersAreNumbers, NoneAssumption, ThreadsAssumption DEF IInv
<1>s. ~spoiled
  BY SpoiledStep
<1>1. ASSUME Arrive \/ Writable
      PROVE  SlotInv'
  BY <1>1, <1>s
     DEF Edge, SlotInv, Arrive, Writable
<1>2. ASSUME Recv
      PROVE  SlotInv'
  BY <1>2, <1>s
     DEF NumberTypes, sioVars, pollVars, SlotInv, Recv
<1>3. ASSUME NEW a \in Threads, SockTry(a)
      PROVE  SlotInv'
  BY <1>3, <1>s
     DEF NumberTypes, sioVars, pollVars, SlotInv, SockTry
<1>4. ASSUME Reopen
      PROVE  SlotInv'
  BY <1>4, <1>s
     DEF SlotInv, Reopen
<1>5. ASSUME PollTop \/ PollRelease \/ PollCall
      PROVE  SlotInv'
  BY <1>5, <1>s
     DEF kernelVars, sioVars, SlotInv, PollTop, PollRelease, PollCall
<1>6. ASSUME PollWait
      PROVE  SlotInv'
  <2>1. UNCHANGED <<data, polled, ready, slot>>
    BY <1>6 DEF PollWait, sioVars
  <2>2. CASE edge' = FALSE /\ token' = polled /\ event' = ReadinessFromEvent /\ poll' = "set"
    <3>1. data > 0 => event'
      BY <2>2 DEF ReadinessFromEvent
    <3> QED BY <1>s, <2>1, <2>2, <3>1 DEF SlotInv
  <2>3. CASE UNCHANGED <<edge, token, event>>
    BY <1>6, <1>s, <2>1, <2>3 DEF PollWait, SlotInv
  <2> QED BY <1>6, <2>2, <2>3 DEF PollWait
<1>7. ASSUME PollSet
      PROVE  SlotInv'
  BY <1>7, <1>s
     DEF kernelVars, SlotInv, PollSet
<1>8. ASSUME PollWake
      PROVE  SlotInv'
  BY <1>8, <1>s
     DEF kernelVars, SioTypes, KernelInv, SlotInv, PollWake
<1>9. ASSUME NEW a \in Threads, ArmStore(a)
      PROVE  SlotInv'
  <2>1. sio[on[a]] \in Regs
    BY <1>9 DEF ArmStore, SioInv, ArmPCs
  <2>2. \A t \in Regs : slot'[t] = slot[t] \/ ~ready[t]
    BY <1>9, <2>1 DEF ArmStore, Ready, SioTypes
  <2>3. UNCHANGED <<data, polled, edge, poll, token, event>>
    BY <1>9 DEF ArmStore, kernelVars, pollVars
  <2> QED BY <1>s, <2>2, <2>3 DEF SlotInv, ReadyInv, Coming
<1>10. ASSUME NEW a \in Threads, ShutdownWake(a)
       PROVE  SlotInv'
  BY <1>10, <1>s
     DEF kernelVars, pollVars, SioTypes, ThreadsInv, DropPCs, SlotInv, ShutdownWake
<1>11. ASSUME NEW a \in Threads, AddReader(a)
       PROVE  SlotInv'
  BY <1>11, <1>s
     DEF Register, sioVars, pollVars, SlotInv, AddReader
<1>12. ASSUME NEW a \in Threads, SioPin(a)
       PROVE  SlotInv'
  BY <1>12, <1>s
     DEF Register, sioVars, pollVars, SlotInv, SioPin
<1>13. ASSUME NEW a \in Threads, Deregister(a)
       PROVE  SlotInv'
  BY <1>13, <1>s
     DEF SlotInv, Deregister
<1>14. ASSUME NEW r \in Recvs, CancelRecv(r)
       PROVE  SlotInv'
  BY <1>14, <1>s
     DEF kernelVars, sioVars, pollVars, SlotInv, CancelRecv
<1>15. ASSUME NEW a \in Threads,
              RunEnd(a) \/ ArmCheck(a) \/ ArmLoad(a) \/ ArmTick(a) \/ ArmKernel(a) \/ Clear(a)
              \/ CancelOld(a) \/ Shutdown(a) \/ Park(a) \/ FlagRelease(a) \/ RemoveReader(a)
              \/ ReleaseFd(a) \/ Sio(a)
       PROVE  SlotInv'
  BY <1>15, <1>s
     DEF kernelVars, sioVars, pollVars, SlotInv, RunEnd, ArmCheck, ArmLoad, ArmTick, ArmKernel,
         Clear, CancelOld, Shutdown, Park, FlagRelease, RemoveReader, ReleaseFd, Sio
<1>16. ASSUME NEW a \in Threads, NEW h \in Users, Dispatch(a, h)
       PROVE  SlotInv'
  BY <1>16, <1>s
     DEF kernelVars, sioVars, pollVars, SlotInv, Dispatch
<1> QED BY <1>1, <1>2, <1>3, <1>4, <1>5, <1>6, <1>7, <1>8, <1>9, <1>10, <1>11, <1>12, <1>13,
           <1>14, <1>15, <1>16 DEF Next, PollStep, ThreadStep

ClearStays(b) == pc[b] = "clear" /\ on'[b] = on[b] /\ sio'[on[b]] = sio[on[b]]

LEMMA ClearStaysStep ==
  ASSUME IInv, Next, NEW b \in Threads, pc'[b] = "clear"
  PROVE  ClearStays(b) \/ ~(data' > 0)
<1> USE TypeGroups, UsersAreNumbers, NoneAssumption, ThreadsAssumption DEF IInv
<1>1. ASSUME NEW a \in Threads, AddReader(a)
      PROVE  ClearStays(b) \/ ~(data' > 0)
  <2>1. PICK n \in Handles : n = added + 1
    BY <1>1, NextNumbers DEF AddReader
  <2>2. Nowhere(n) /\ pc[b] = "clear" /\ on'[b] = on[b]
    BY <1>1, <2>1 DEF AddReader, Unmade, Made, NumberTypes, Enter, ThreadTypes
  <2>3. on[b] # n
    BY <2>2 DEF Nowhere, Busy, Where, ArmPCs
  <2> QED BY <1>1, <2>1, <2>2, <2>3 DEF AddReader, ClearStays, UserTypes
<1>2. ASSUME NEW a \in Threads, SioPin(a)
      PROVE  ClearStays(b) \/ ~(data' > 0)
  <2>1. b # a /\ pc[b] = "clear" /\ on'[b] = on[b]
    BY <1>2 DEF SioPin, Go, Enter, ThreadTypes
  <2>2. Where(a) = on[a] /\ Where(b) = on[b] /\ on[a] \in Users /\ on[b] \in Users
    BY <1>2, <2>1 DEF SioPin, ThreadsInv, Where, ArmPCs
  <2>3. on[b] # on[a]
    BY <2>1, <2>2 DEF OnePlace
  <2> QED BY <1>2, <2>1, <2>3 DEF SioPin, ClearStays, UserTypes
<1>3. ASSUME NEW a \in Threads, ArmKernel(a)
      PROVE  ClearStays(b) \/ ~(data' > 0)
  BY <1>3
     DEF FdReady, kernelVars, regVars, ClearStays, ThreadTypes, PCs, Enter, Go, Idle, ArmKernel
<1>4. ASSUME NEW a \in Threads, SockTry(a)
      PROVE  ClearStays(b) \/ ~(data' > 0)
  BY <1>4
     DEF regVars, ClearStays, ThreadTypes, PCs, Enter, Go, Idle, SockTry
<1>5. ASSUME NEW a \in Threads, NEW h \in Users, Dispatch(a, h)
      PROVE  ClearStays(b) \/ ~(data' > 0)
  BY <1>5
     DEF regVars, ClearStays, ThreadTypes, PCs, Enter, Go, Idle, Dispatch
<1>6. ASSUME NEW a \in Threads,
             RunEnd(a) \/ ArmCheck(a) \/ ArmLoad(a) \/ ArmStore(a)
      PROVE  ClearStays(b) \/ ~(data' > 0)
  BY <1>6
     DEF regVars, ClearStays, ThreadTypes, PCs, Enter, Go, Idle, RunEnd, ArmCheck, ArmLoad,
         ArmStore
<1>7. ASSUME NEW a \in Threads,
             ArmTick(a) \/ Clear(a) \/ CancelOld(a)
      PROVE  ClearStays(b) \/ ~(data' > 0)
  BY <1>7
     DEF regVars, ClearStays, ThreadTypes, PCs, Enter, Go, Idle, ArmTick, Clear, CancelOld
<1>8. ASSUME NEW a \in Threads,
             RemoveReader(a) \/ ReleaseFd(a) \/ Sio(a)
      PROVE  ClearStays(b) \/ ~(data' > 0)
  BY <1>8
     DEF DropRegistration, ClearStays, ThreadTypes, PCs, Enter, Go, Idle, RemoveReader,
         ReleaseFd, Sio
<1>9. ASSUME NEW a \in Threads,
             Deregister(a) \/ Shutdown(a) \/ ShutdownWake(a) \/ Park(a) \/ FlagRelease(a)
      PROVE  ClearStays(b) \/ ~(data' > 0)
  BY <1>9
     DEF regVars, ClearStays, ThreadTypes, PCs, Enter, Go, Idle, Deregister, Shutdown,
         ShutdownWake, Park, FlagRelease
<1>10. ASSUME Arrive \/ Writable \/ Recv \/ Reopen \/ PollTop \/ PollRelease \/ PollWait
              \/ PollSet \/ PollWake \/ PollCall
       PROVE  ClearStays(b) \/ ~(data' > 0)
  BY <1>10
     DEF ClearStays, threadVars, regVars, Arrive, Writable, Recv, Reopen, PollTop, PollRelease,
         PollWait, PollSet, PollWake, PollCall
<1>11. ASSUME NEW r \in Recvs, CancelRecv(r)
       PROVE  ClearStays(b) \/ ~(data' > 0)
  BY <1>11
     DEF ClearStays, threadVars, regVars, CancelRecv
<1> QED
  BY <1>1, <1>2, <1>3, <1>4, <1>5, <1>6, <1>7, <1>8, <1>9, <1>10, <1>11
     DEF Next, PollStep, ThreadStep

ClearAt(b) ==
  LET s == sio[on[b]] IN
  pc[b] = "clear" /\ ~Outdated(on[b]) /\ tick[s] = tickR[s] /\ polled = s /\ data > 0
    => Coming(s)

LEMMA ClearAtStep ==
  ASSUME IInv, ReaderInv, OneWanted, Next, ~spoiled', NEW b \in Threads, ClearAt(b)
  PROVE  ClearAt(b)'
<1> USE TypeGroups, UsersAreNumbers, NoneAssumption, ThreadsAssumption DEF IInv
<1> SUFFICES ASSUME pc'[b] = "clear", data' > 0, (~Outdated(on[b]))'
             PROVE  ClearAt(b)'
  BY DEF ClearAt
<1>c. ClearStays(b)
  BY ClearStaysStep
<1>h. PICK h \in Users : h = on[b] /\ h = on'[b]
  BY <1>c DEF ClearStays, ThreadsInv
<1>s. PICK s \in Regs : s = sio[h] /\ s = sio'[h]
  BY <1>c, <1>h DEF ClearStays, SioInv, ArmPCs
<1>o. ~Outdated(h)
  <2>1. ~(Outdated(h)')
    BY <1>h DEF Outdated
  <2> QED BY <1>c, <1>h, <2>1, OutdatedStep DEF ClearStays
<1> SUFFICES ASSUME tick'[s] = tickR'[s], polled' = s
             PROVE  Coming(s)'
  BY <1>h, <1>s DEF ClearAt, Coming
<1>i. tick[s] = tickR[s] /\ polled = s /\ data > 0 => Coming(s)
  BY <1>c, <1>h, <1>s, <1>o DEF ClearAt, ClearStays
<1>1. ASSUME Arrive \/ Writable
      PROVE  Coming(s)'
  BY <1>1
     DEF Edge, Coming, Arrive, Writable
<1>2. ASSUME Recv
      PROVE  Coming(s)'
  BY <1>2, <1>i
     DEF NumberTypes, sioVars, pollVars, Coming, Recv
<1>3. ASSUME NEW a \in Threads, SockTry(a)
      PROVE  Coming(s)'
  BY <1>3, <1>i
     DEF NumberTypes, sioVars, pollVars, Coming, SockTry
<1>4. ASSUME Reopen
      PROVE  Coming(s)'
  BY <1>4
     DEF Reopen
<1>5. ASSUME PollTop \/ PollRelease \/ PollCall
      PROVE  Coming(s)'
  BY <1>5, <1>i
     DEF kernelVars, sioVars, Coming, PollTop, PollRelease, PollCall
<1>6. ASSUME PollWait
      PROVE  Coming(s)'
  <2>1. UNCHANGED <<data, polled, tick, tickR>>
    BY <1>6 DEF PollWait, sioVars
  <2>2. CASE edge' = FALSE /\ token' = polled /\ event' = ReadinessFromEvent /\ poll' = "set"
    <3>1. event'
      BY <2>1, <2>2 DEF ReadinessFromEvent
    <3> QED BY <2>1, <2>2, <3>1 DEF Coming
  <2>3. CASE UNCHANGED <<edge, token, event>>
    BY <1>6, <1>i, <2>1, <2>3 DEF PollWait, Coming
  <2> QED BY <1>6, <2>2, <2>3 DEF PollWait
<1>7. ASSUME PollSet
      PROVE  Coming(s)'
  <2>1. token # s
    BY <1>7 DEF PollSet
  <2> QED BY <1>7, <1>i, <2>1 DEF PollSet, Coming, SioTypes, kernelVars
<1>8. ASSUME PollWake
      PROVE  Coming(s)'
  BY <1>8, <1>i
     DEF kernelVars, Coming, PollWake
<1>9. ASSUME NEW a \in Threads, ArmTick(a)
      PROVE  Coming(s)'
  <2>1. a # b /\ ~Outdated(on[a]) /\ pc[a] = "tick"
    BY <1>9, <1>c DEF ArmTick, ClearStays
  <2>2. FALSE
    BY <1>c, <1>h, <1>o, <2>1, OneArms DEF ClearStays
  <2> QED BY <2>2
<1>10. ASSUME NEW a \in Threads, AddReader(a)
       PROVE  Coming(s)'
  BY <1>10, <1>i
     DEF Register, sioVars, pollVars, Coming, AddReader
<1>11. ASSUME NEW a \in Threads, SioPin(a)
       PROVE  Coming(s)'
  BY <1>11, <1>i
     DEF Register, sioVars, pollVars, Coming, SioPin
<1>12. ASSUME NEW a \in Threads, Deregister(a)
       PROVE  Coming(s)'
  BY <1>12
     DEF Deregister
<1>13. ASSUME NEW r \in Recvs, CancelRecv(r)
       PROVE  Coming(s)'
  BY <1>13, <1>i
     DEF kernelVars, sioVars, pollVars, Coming, CancelRecv
<1>14. ASSUME NEW a \in Threads,
              RunEnd(a) \/ ArmCheck(a) \/ ArmLoad(a) \/ ArmStore(a) \/ ArmKernel(a) \/ Clear(a)
              \/ CancelOld(a) \/ Shutdown(a) \/ ShutdownWake(a) \/ Park(a) \/ FlagRelease(a)
              \/ RemoveReader(a) \/ ReleaseFd(a) \/ Sio(a)
       PROVE  Coming(s)'
  BY <1>14, <1>i
     DEF kernelVars, sioVars, pollVars, Coming, RunEnd, ArmCheck, ArmLoad, ArmStore, ArmKernel,
         Clear, CancelOld, Shutdown, ShutdownWake, Park, FlagRelease, RemoveReader, ReleaseFd,
         Sio
<1>15. ASSUME NEW a \in Threads, NEW g \in Users, Dispatch(a, g)
       PROVE  Coming(s)'
  BY <1>15, <1>i
     DEF kernelVars, sioVars, pollVars, Coming, Dispatch
<1> QED BY <1>1, <1>2, <1>3, <1>4, <1>5, <1>6, <1>7, <1>8, <1>9, <1>10, <1>11, <1>12, <1>13,
           <1>14, <1>15 DEF Next, PollStep, ThreadStep

LEMMA ClearStep ==
  ASSUME IInv, ReaderInv, OneWanted, ClearInv, Next, ~spoiled'
  PROVE  ClearInv'
<1>1. ~spoiled
  BY SpoiledStep
<1>2. \A b \in Threads : ClearAt(b)
  BY <1>1 DEF ClearInv, ClearAt
<1>3. \A b \in Threads : ClearAt(b)'
  BY <1>2, ClearAtStep
<1> QED BY <1>3 DEF ClearInv, ClearAt

-----------------------------------------------------------------------------
LEMMA EInvInit == Init => EInv
<1> SUFFICES ASSUME Init PROVE EInv
  OBVIOUS
<1>1. \A h \in Users : ~Wanted(h)
  BY UsersAreNumbers, NoneAssumption DEF Init, Wanted
<1>2. WokenInv /\ ReaderInv /\ NeedActive
  BY DEF Init, WokenInv, ReaderInv, NeedActive
<1>3. OneWanted /\ LockInv /\ RegInv /\ Held
  BY <1>1 DEF OneWanted, LockInv, RegInv, Held
<1>4. ReadyInv /\ SlotInv /\ ClearInv
  BY DEF Init, ReadyInv, SlotInv, ClearInv
<1>5. OwnerInv
  BY DEF Init, OwnerInv, DropPCs
<1> QED BY <1>2, <1>3, <1>4, <1>5 DEF EInv

LEMMA EInvStep == IInv /\ EInv /\ [Next]_vars => EInv'
<1>1. ASSUME IInv, EInv, Next
      PROVE  EInv'
  <2>1. Kinds
    BY <1>1, KindsOfSteps
  <2>2. /\ WokenInv' /\ ReaderInv' /\ OneWanted' /\ NeedActive' /\ LockInv' /\ RegInv'
        /\ OwnerInv'
    BY <1>1, WokenStep, ReaderInvStep, OneWantedStep, NeedActiveStep, LockInvStep, RegInvStep,
       OwnerStep
       DEF EInv
  <2>3. Held'
    BY <1>1, <2>1, HeldStep DEF EInv
  <2>4. ReadyInv' /\ SlotInv' /\ ClearInv'
    <3>1. CASE spoiled'
      BY <3>1 DEF ReadyInv, SlotInv, ClearInv
    <3>2. CASE ~spoiled'
      BY <1>1, <3>2, ReadyStep, SlotStep, ClearStep DEF EInv
    <3> QED BY <3>1, <3>2
  <2> QED BY <2>2, <2>3, <2>4 DEF EInv
<1>2. ASSUME EInv, UNCHANGED vars
      PROVE  EInv'
  <2>1. /\ WokenInv' /\ ReaderInv' /\ OneWanted' /\ NeedActive' /\ LockInv' /\ RegInv'
        /\ OwnerInv'
    BY <1>2
       DEF EInv, OwnerInv, WokenInv, ReaderInv, OneWanted, NeedActive, LockInv, RegInv, Wanted, Entering,
           Where, vars, kernelVars, sioVars, pollVars, regVars, sockVars, threadVars
  <2>2. Held' /\ ReadyInv' /\ SlotInv'
    BY <1>2
       DEF EInv, Held, ReadyInv, SlotInv, Coming, Wanted, Busy, Where, vars, kernelVars, sioVars,
           pollVars, regVars, sockVars, threadVars
  <2>3. ClearInv'
    BY <1>2
       DEF EInv, ClearInv, Coming, Outdated, vars, kernelVars, sioVars, pollVars, regVars, sockVars,
           threadVars
  <2> QED BY <2>1, <2>2, <2>3 DEF EInv
<1> QED BY <1>1, <1>2

LEMMA EInvHolds == Spec => []EInv
<1>1. Init => EInv
  BY EInvInit
<1>2. IInv /\ EInv /\ [Next]_vars => EInv'
  BY EInvStep
<1> QED BY <1>1, <1>2, IInvHolds, PTL DEF Spec

\* No edge is lost: a reader that has been added and not been removed or replaced, or a helper
\* that has not ended, is on its way through a thread, the injector or the poll thread, or it
\* waits in the slot of the registration epoll knows, and there is nothing to read or the
\* edge is coming; whatever the threads that arm, clear, remove and add, the poll thread, the
\* peer and the reuse of the number do, and however many of them there are.  (Unless an
\* outdated handle has gone on arming, the tick has gone round, or a reader was added to a
\* dead registration, or a helper to one that add_reader had made.)
THEOREM NoEdgeIsLost == Spec => []EdgeIsComing
<1>1. ASSUME IInv, EInv, ~spoiled, ~stale,
             NEW h \in Users, Wanted(h), At(h) = {}, queued[h] = 0, woken # h
      PROVE  /\ slot[sio[h]] = h
             /\ polled = sio[h]
             /\ data > 0 => edge \/ (poll \in {"set", "wake"} /\ token = sio[h] /\ event)
  <2>1. ~Busy(h)
    BY <1>1, AtIsWhere DEF Busy
  <2>2. PICK s \in Regs : slot[s] = h
    BY <1>1, <2>1 DEF EInv, Held
  <2>3. sio[h] = s
    BY <1>1, <2>2 DEF IInv, SioInv
  <2>4. siosLock = None
    BY <1>1, <2>1 DEF EInv, LockInv, Busy, IInv, TypeOK
  <2>5. polled = s
    BY <1>1, <2>3, <2>4 DEF EInv, RegInv
  <2> QED BY <1>1, <2>2, <2>3, <2>5, NoneAssumption DEF EInv, SlotInv
<1>2. IInv /\ EInv => EdgeIsComing
  BY <1>1 DEF EdgeIsComing
<1> QED BY <1>2, IInvHolds, EInvHolds, PTL

-----------------------------------------------------------------------------
\* Connection and Serving.  First what each part of the step does to the variables of the
\* transport.

USE DEF linkVars

LEMMA ConnAppFacts == ASSUME setup \in ConnApps
  PROVE  /\ setup.tls \in BOOLEAN /\ setup.pinned \in BOOLEAN /\ setup.giveup \in BOOLEAN
         /\ setup.inbound \in Nat /\ setup.need \in Nat /\ setup.limit \in Nat /\ setup.high \in Nat
         /\ setup.script \in [Tasks -> Seq(Ops)] /\ setup.server \in BOOLEAN
  BY ConnAppsAssumption

\* The transport's booleans.
FlagsTyped ==
  /\ closing \in BOOLEAN /\ connLost \in BOOLEAN /\ tpaused \in BOOLEAN /\ sockOpen \in BOOLEAN
  /\ registered \in BOOLEAN /\ reading \in BOOLEAN /\ writing \in BOOLEAN
  /\ lostSoon \in {"no", "clean", "exc"} /\ state \in {"new", "made", "lost"}

\* A close by force, with or without an exception.
Forced == \E how \in {"clean", "exc"} : ForceClose(how)

USE DEF Forced

LEMMA CloseTyped == LinkTyped /\ Close => FlagsTyped'
  BY ConnAppFacts DEF LinkTyped, Close, FlagsTyped

LEMMA ForceCloseTyped == LinkTyped /\ Forced => FlagsTyped'
  BY ConnAppFacts DEF LinkTyped, ForceClose, FlagsTyped

LEMMA ResumeTyped == LinkTyped /\ ResumeReading => FlagsTyped'
  BY ConnAppFacts DEF LinkTyped, ResumeReading, ResumeSsl, Reads, FlagsTyped

LEMMA FeedTyped == ASSUME LinkTyped, NEW n, FeedData(n) PROVE FlagsTyped'
  BY ConnAppFacts DEF LinkTyped, FeedData, PauseReading, Reads, FlagsTyped

LEMMA RawWriteTyped == ASSUME LinkTyped, NEW s, RawWrite(s) PROVE FlagsTyped'
<1>1. CASE connLost \/ ~sockOpen
  BY <1>1 DEF LinkTyped, RawWrite, FlagsTyped
<1>2. CASE ~(connLost \/ ~sockOpen) /\ peer = "reset"
  BY <1>2, ForceCloseTyped DEF RawWrite
<1>3. CASE ~(connLost \/ ~sockOpen) /\ peer # "reset"
  BY <1>3, ConnAppFacts DEF LinkTyped, RawWrite, FlagsTyped
<1> QED
  BY <1>1, <1>2, <1>3

LEMMA LostTyped == LinkTyped /\ CallConnectionLost => FlagsTyped'
  BY DEF LinkTyped, CallConnectionLost, FlagsTyped

-----------------------------------------------------------------------------
\* The socket, its registration, and the lock of the one who sends.
LinkSafe ==
  /\ sending => lock = "wready" /\ sockOpen
  /\ ~sockOpen => closing /\ ~registered /\ ~reading /\ ~writing
  /\ writing => sending \/ buffer # <<>>

LinkInv == LinkTyped /\ LinkSafe

\* The actions that leave all of this alone.
linkState == <<setup, lock, linkVars, opener, sending, buffer>>

TaskQuiet(t) ==
  \/ Write(t) \/ WriteOutgoing(t) \/ WriteEof(t) \/ Suspend(t) \/ Requeue(t)
  \/ Drain(t) \/ DrainHelper(t) \/ DrainWoken(t) \/ ReadStart(t) \/ ReadLook(t) \/ WaitPaused(t)
  \/ WaitForData(t) \/ WaitWoken(t) \/ ReadCopy(t)
         \/ ReadDelete(t)
          \/ MaybeResume(t) \/ StartTls(t)

LEMMA TaskQuietLink == ASSUME NEW t \in Tasks, TaskQuiet(t) PROVE UNCHANGED linkState
<1> USE DEF linkState, outVars
<1>1. CASE Write(t) \/ WriteOutgoing(t) \/ WriteEof(t) \/ Suspend(t) \/ Requeue(t)
  BY <1>1 DEF Write, WriteOutgoing, WriteEof, Suspend, Requeue
<1>2. CASE Drain(t) \/ DrainHelper(t) \/ DrainWoken(t) \/ ReadStart(t) \/ ReadLook(t) \/ WaitPaused(t)
  BY <1>2 DEF Drain, DrainHelper, DrainWoken, ReadStart, ReadLook, WaitPaused
<1>3. CASE WaitForData(t) \/ WaitWoken(t) \/ ReadCopy(t)
         \/ ReadDelete(t)
          \/ MaybeResume(t) \/ StartTls(t)
  BY <1>3 DEF WaitForData, WaitWoken, ReadCopy, ReadDelete, MaybeResume, StartTls
<1> QED
  BY <1>1, <1>2, <1>3 DEF TaskQuiet

LEMMA OtherQuietLink ==
  ASSUME (\E r \in Readers : ReadCheck(r)) \/ Begin \/ ShutdownComplete \/ DeferExpires
         \/ PeerSends \/ PeerEnds \/ ServerStep
  PROVE  UNCHANGED linkState
  BY DEF ReadCheck, Begin, ShutdownComplete, DeferExpires, PeerSends, PeerEnds, ServerStep,
     linkState,
         outVars

\* Within a region of the lock nobody is sending.
LEMMA CloseSafe ==
  ASSUME LinkInv, lock = Nobody, Close, UNCHANGED <<setup, lock, sending, buffer>>,
         opener' \in {"none", "await", "open", "gaveup"}
  PROVE  LinkInv'
<1>1. LinkTyped'
  BY CloseTyped DEF LinkInv, LinkTyped, FlagsTyped
<1>2. LinkSafe'
  BY ConnNoneAssumption DEF LinkInv, LinkTyped, LinkSafe, Close, Senders
<1> QED
  BY <1>1, <1>2 DEF LinkInv

LEMMA ForceCloseSafe ==
  ASSUME LinkInv, Forced, UNCHANGED <<setup, sending, opener>>,
         ~sending, lock' \in Senders \cup {Nobody}
  PROVE  LinkInv'
<1>1. LinkTyped'
  BY ForceCloseTyped DEF LinkInv, LinkTyped, FlagsTyped
<1>2. LinkSafe'
  BY DEF LinkInv, LinkTyped, LinkSafe, ForceClose
<1> QED
  BY <1>1, <1>2 DEF LinkInv

LEMMA FeedSafe ==
  ASSUME LinkInv, NEW n, FeedData(n), UNCHANGED <<setup, sending, opener, buffer>>,
         ~sending, lock' \in Senders \cup {Nobody}
  PROVE  LinkInv'
<1>1. LinkTyped'
  BY FeedTyped DEF LinkInv, LinkTyped, FlagsTyped
<1>2. LinkSafe'
  BY DEF LinkInv, LinkTyped, LinkSafe, FeedData, PauseReading, Reads
<1> QED
  BY <1>1, <1>2 DEF LinkInv

LEMMA ResumeSafe ==
  ASSUME LinkInv, ResumeReading, UNCHANGED <<setup, lock, sending, opener, buffer>>
  PROVE  LinkInv'
<1>1. LinkTyped'
  BY ResumeTyped DEF LinkInv, LinkTyped, FlagsTyped
<1>2. LinkSafe'
  BY DEF LinkInv, LinkTyped, LinkSafe, ResumeReading, ResumeSsl, Reads
<1> QED
  BY <1>1, <1>2 DEF LinkInv

LEMMA RawWriteSafe ==
  ASSUME LinkInv, NEW s, RawWrite(s), UNCHANGED <<setup, sending, opener>>,
         ~sending, lock' \in Senders \cup {Nobody}
  PROVE  LinkInv'
<1>1. LinkTyped'
  BY RawWriteTyped DEF LinkInv, LinkTyped, FlagsTyped
<1>2. LinkSafe'
  <2>1. CASE connLost \/ ~sockOpen
    BY <2>1 DEF LinkInv, LinkTyped, LinkSafe, RawWrite
  <2>2. CASE ~(connLost \/ ~sockOpen) /\ peer = "reset"
    BY <2>2 DEF LinkInv, LinkTyped, LinkSafe, RawWrite, ForceClose
  <2>3. CASE ~(connLost \/ ~sockOpen) /\ peer # "reset"
    BY <2>3 DEF LinkInv, LinkTyped, LinkSafe, RawWrite
  <2> QED
    BY <2>1, <2>2, <2>3
<1> QED
  BY <1>1, <1>2 DEF LinkInv

LEMMA LostSafe ==
  ASSUME LinkInv, CallConnectionLost, UNCHANGED setup, ~sending', lock' \in Senders \cup {Nobody},
         opener' \in {"none", "await", "open", "gaveup"}
  PROVE  LinkInv'
<1>1. LinkTyped'
  BY LostTyped DEF LinkInv, LinkTyped, FlagsTyped
<1>2. LinkSafe'
  BY DEF LinkInv, LinkTyped, LinkSafe, CallConnectionLost
<1> QED
  BY <1>1, <1>2 DEF LinkInv

LEMMA NotSending == ASSUME LinkInv, lock # "wready" PROVE ~sending
  BY DEF LinkInv, LinkSafe

LEMMA ReadRunLink == ASSUME NEW r \in Readers, LinkInv, ReadRun(r) PROVE LinkInv'
<1>0. /\ lock = Nobody /\ UNCHANGED <<setup, lock, sending, opener>> /\ ~sending
      /\ lock' \in Senders \cup {Nobody} /\ opener' \in {"none", "await", "open", "gaveup"}
  BY NotSending, ConnNoneAssumption DEF ReadRun, Senders, LinkInv, LinkTyped
<1>1. CASE UNCHANGED <<linkVars, buffer>>
  BY <1>0, <1>1 DEF LinkInv, LinkTyped, LinkSafe
<1>2. CASE Forced
  BY <1>0, <1>2, ForceCloseSafe
<1>3. CASE FeedData(incoming + inbox) /\ UNCHANGED buffer
  BY <1>0, <1>3, FeedSafe
<1>4. CASE Close /\ UNCHANGED buffer
  BY <1>0, <1>4, CloseSafe
<1>5. CASE /\ sockOpen /\ Reads(FALSE) /\ UNCHANGED buffer
           /\ UNCHANGED <<closing, connLost, tpaused, sockOpen, writing, state, lostSoon>>
  BY <1>0, <1>5, ConnAppFacts DEF Reads, LinkInv, LinkTyped, LinkSafe
<1>6. \/ UNCHANGED <<linkVars, buffer>> \/ Forced
      \/ FeedData(incoming + inbox) /\ UNCHANGED buffer
      \/ Close /\ UNCHANGED buffer
      \/ /\ sockOpen /\ Reads(FALSE) /\ UNCHANGED buffer
         /\ UNCHANGED <<closing, connLost, tpaused, sockOpen, writing, state, lostSoon>>
  <2> HIDE DEF linkVars
  <2> QED
    BY DEF ReadRun, HandshakeFails
<1> QED
  BY <1>1, <1>2, <1>3, <1>4, <1>5, <1>6

LEMMA WriteReadyLink == LinkInv /\ WriteReady => LinkInv'
<1> SUFFICES ASSUME LinkInv, WriteReady PROVE LinkInv'
  OBVIOUS
<1>1. CASE peer = "reset"
  <2>1. Forced /\ UNCHANGED <<setup, lock, sending, opener>> /\ ~sending
    BY <1>1 DEF WriteReady
  <2> QED
    BY <2>1, ForceCloseSafe DEF LinkInv, LinkTyped
<1>2. CASE peer # "reset"
  <2>1. WriteSend /\ lock' = "wready" /\ writing /\ UNCHANGED <<setup, opener>>
    BY <1>2 DEF WriteReady
  <2>2. sending' = TRUE /\ UNCHANGED linkVars
    BY <2>1 DEF WriteSend
  <2> QED
    BY <2>1, <2>2 DEF LinkInv, LinkTyped, LinkSafe, Senders
<1> QED
  BY <1>1, <1>2

LEMMA WritePutLink == LinkInv /\ WritePut => LinkInv'
<1> SUFFICES ASSUME LinkInv, WritePut PROVE LinkInv'
  OBVIOUS
<1>0. sending /\ sending' = FALSE /\ lock' = Nobody /\ UNCHANGED setup
  BY DEF WritePut
<1>1. CASE buffer' = <<>> /\ closing
  <2>1. CallConnectionLost /\ opener' \in {"none", "await", "open", "gaveup"}
    BY <1>1 DEF WritePut, LinkInv, LinkTyped
  <2> QED
    BY <1>0, <2>1, LostSafe
<1>2. CASE ~(buffer' = <<>> /\ closing)
  <2>1. /\ writing' = (buffer' # <<>>) /\ registered' = (setup.pinned \/ reading \/ writing')
        /\ UNCHANGED <<closing, connLost, tpaused, sockOpen, reading, state, lostSoon, opener>>
    BY <1>2 DEF WritePut
  <2> QED
    BY <1>0, <2>1, ConnAppFacts DEF LinkInv, LinkTyped, LinkSafe
<1> QED
  BY <1>1, <1>2

LEMMA DoReadLink == LinkInv /\ DoRead => LinkInv'
<1> SUFFICES ASSUME LinkInv, DoRead PROVE LinkInv'
  OBVIOUS
<1>0. /\ UNCHANGED <<setup, sending, opener, buffer>> /\ ~sending
      /\ lock' \in Senders \cup {Nobody}
  BY NotSending, ConnNoneAssumption DEF DoRead, Senders, LinkInv, LinkTyped
<1>1. CASE UNCHANGED linkVars
  BY <1>0, <1>1 DEF LinkInv, LinkTyped, LinkSafe
<1>2. CASE FeedData(incoming)
  BY <1>0, <1>2, FeedSafe
<1> QED
  BY <1>1, <1>2 DEF DoRead

LEMMA CloseTlsLink == ASSUME NEW t \in Tasks, LinkInv, CloseTls(t) PROVE LinkInv'
<1>0. /\ UNCHANGED <<setup, sending, opener, buffer>> /\ ~sending
      /\ lock' \in Senders \cup {Nobody}
  BY NotSending, ConnNoneAssumption DEF CloseTls, Senders, LinkInv, LinkTyped
<1>1. CASE UNCHANGED linkVars
  BY <1>0, <1>1 DEF LinkInv, LinkTyped, LinkSafe
<1>2. CASE FeedData(incoming)
  BY <1>0, <1>2, FeedSafe
<1> QED
  BY <1>1, <1>2 DEF CloseTls

LEMMA TaskLink == ASSUME NEW t \in Tasks, LinkInv, TaskStep(t) PROVE LinkInv'
<1> USE ConnNoneAssumption DEF Senders
<1>1. CASE TaskQuiet(t)
  BY <1>1, TaskQuietLink DEF linkState, LinkInv, LinkTyped, LinkSafe
<1>2. CASE WriteEnter(t)
  BY <1>2 DEF WriteEnter, LinkInv, LinkTyped, LinkSafe
<1>3. CASE WriteRaw(t)
  BY <1>3, NotSending, RawWriteSafe DEF WriteRaw
<1>4. CASE CloseTransport(t)
  BY <1>4, CloseSafe DEF CloseTransport, outVars, LinkInv, LinkTyped
<1>5. CASE AbortTransport(t)
  BY <1>5, NotSending, ForceCloseSafe DEF AbortTransport
<1>6. CASE CloseTls(t)
  BY <1>6, CloseTlsLink
<1>7. CASE Resume(t)
  BY <1>7, ResumeSafe DEF Resume, outVars
<1>8. CASE StartTlsEnd(t)
  <2>1. UNCHANGED <<setup, lock, sending, buffer, opener>>
    BY <1>8 DEF StartTlsEnd, outVars
  <2>2. UNCHANGED linkVars \/ (lock = Nobody /\ Close)
    BY <1>8 DEF StartTlsEnd
  <2> QED
    BY <2>1, <2>2, CloseSafe DEF LinkInv, LinkTyped, LinkSafe
<1> QED
  BY <1>1, <1>2, <1>3, <1>4, <1>5, <1>6, <1>7, <1>8 DEF TaskStep, TaskQuiet

LEMMA LinkStep == LinkInv /\ [ConnNext]_connectionVars => LinkInv'
<1> SUFFICES ASSUME LinkInv, [ConnNext]_connectionVars PROVE LinkInv'
  OBVIOUS
<1> USE ConnNoneAssumption DEF Senders
<1>1. ASSUME NEW t \in Tasks, TaskStep(t) PROVE LinkInv'
  BY <1>1, TaskLink
<1>2. ASSUME NEW r \in Readers, ReadRun(r) PROVE LinkInv'
  BY <1>2, ReadRunLink
<1>3. CASE WriteReady \/ WritePut \/ DoRead
  BY <1>3, WriteReadyLink, WritePutLink, DoReadLink
<1>4. CASE Startup
  <2>1. UNCHANGED <<setup, lock, closing, connLost, tpaused, sockOpen, writing, lostSoon, sending,
                    buffer>>
    BY <1>4 DEF Startup, outVars
  <2>2. /\ state' = "made" /\ opener' \in {"none", "await", "open", "gaveup"}
        /\ UNCHANGED <<reading, registered>> \/ (~closing /\ Reads(TRUE))
    BY <1>4 DEF Startup, LinkInv, LinkTyped
  <2>3. CASE UNCHANGED <<reading, registered>>
    BY <2>1, <2>2, <2>3 DEF LinkInv, LinkTyped, LinkSafe
  <2>4. CASE ~closing /\ Reads(TRUE)
    <3>1. reading' = TRUE /\ registered' = TRUE
      BY <2>4 DEF Reads
    <3> QED
      BY <2>1, <2>2, <2>4, <3>1 DEF LinkInv, LinkTyped, LinkSafe
  <2> QED
    BY <2>2, <2>3, <2>4
<1>5. CASE Lost
  BY <1>5, NotSending, LostSafe DEF Lost, outVars, LinkInv, LinkTyped
<1>6. CASE SslWrite
  BY <1>6, NotSending, RawWriteSafe DEF SslWrite
<1>7. CASE BeginResume
  BY <1>7, ResumeSafe DEF BeginResume
<1>8. CASE CloseUnwrapped
  BY <1>8, CloseSafe DEF CloseUnwrapped, outVars, LinkInv, LinkTyped
<1>9. CASE SslTimeout \/ HandshakeError
  BY <1>9, NotSending, ForceCloseSafe DEF SslTimeout, HandshakeError,
     HandshakeFails, HandshakeTimeout, ShutdownTimeout
<1>10. CASE HandshakeComplete \/ Accept
  BY <1>10 DEF HandshakeComplete, Accept, outVars, LinkInv, LinkTyped, LinkSafe
<1>11. CASE GiveUp
  BY <1>11, CloseSafe DEF GiveUp, outVars
<1>12. CASE (\E r \in Readers : ReadCheck(r)) \/ Begin \/ ShutdownComplete \/ DeferExpires
            \/ PeerSends \/ PeerEnds \/ ServerStep
  BY <1>12, OtherQuietLink DEF linkState, LinkInv, LinkTyped, LinkSafe
<1>13. CASE UNCHANGED connectionVars
  BY <1>13 DEF connectionVars, outVars, LinkInv, LinkTyped, LinkSafe
<1> QED
  BY <1>1, <1>2, <1>3, <1>4, <1>5, <1>6, <1>7, <1>8, <1>9, <1>10, <1>11, <1>12, <1>13
     DEF ConnNext, ReadStep, WriteStep, HandleStep

LEMMA LinkInit == ConnInit => LinkInv
  BY ConnAppFacts, ConnNoneAssumption
     DEF ConnInit, TransportInit, OpenConnection, LinkInv, LinkTyped, LinkSafe, Senders

LEMMA LinkHolds == ConnSpec => []LinkInv
  BY LinkInit, LinkStep, PTL DEF ConnSpec

\* The registration of a connection's descriptor, and the callbacks on it, end before its
\* socket does, whatever the tasks, the callbacks and the timeouts do, and in whatever order
\* (_call_connection_lost, _force_close).
THEOREM ReleasedBeforeClosed == ConnSpec => []ReleasedWithSocket
<1>1. LinkInv => ReleasedWithSocket
  BY DEF LinkInv, LinkSafe, ReleasedWithSocket
<1> QED
  BY <1>1, LinkHolds, PTL

-----------------------------------------------------------------------------
\* The server and its clients.

\* Whoever waits in wait_closed is in the list, and there is no list once it is gone; a
\* server that starts has its sockets, and one that is closed and has no client has woken
\* everybody.
ServingInv ==
  /\ ServingTypeOK
  /\ \A c \in Callers : caller[c] = "await" => c \in waiters
  /\ gone => waiters = {}
  /\ creating = "start" => sockets
  /\ creating \in {"bind", "close"} => listening = {}
  /\ creating = "failed" => opened = {}
  /\ creating = "serving" /\ ~sockets => opened = {} /\ (clients = {} => gone)

\* All that a connection does to its server.
ServingMove ==
  \/ UNCHANGED servingVars
  \/ Attach(Client) \/ CreateStep \/ CloseServer \/ \E c \in Callers : WaitClosed(c)
  \/ Detach(Client) /\ UNCHANGED <<creating, infos, opened, listening, sockets>>

LEMMA ServingMoveStep == ServingInv /\ ServingMove => ServingInv'
<1> SUFFICES ASSUME ServingInv, ServingMove PROVE ServingInv'
  OBVIOUS
<1>1. CASE UNCHANGED servingVars
  BY <1>1 DEF servingVars, ServingInv, ServingTypeOK
<1>2. CASE Attach(Client)
  BY <1>2 DEF Attach, ServingInv, ServingTypeOK
<1>3. ASSUME NEW sa \in Addresses, SkipAddress(sa) \/ Bind(sa) PROVE ServingInv'
  <2>1. /\ UNCHANGED <<listening, sockets, clients, waiters, gone, caller>>
        /\ infos' \subseteq Addresses /\ opened' \subseteq Addresses /\ opened \subseteq opened'
        /\ creating = "bind" /\ creating' \in {"bind", "close"}
    BY <1>3 DEF SkipAddress, Bind, ServingInv, ServingTypeOK
  <2> QED
    BY <2>1 DEF ServingInv, ServingTypeOK
<1>4. CASE CloseBound
  <2>1. listening = {}
    BY <1>4 DEF CloseBound, ServingInv, ServingTypeOK
  <2> QED
    BY <1>4, <2>1 DEF CloseBound, ServingInv, ServingTypeOK
<1>5. ASSUME Bound \/ Yield \/ \E sa \in Addresses : Listen(sa) PROVE ServingInv'
  <2>1. /\ UNCHANGED <<infos, opened, clients, waiters, gone, caller>>
        /\ listening' \subseteq opened /\ sockets' \in BOOLEAN
        /\ creating' \in {"start", "serving", "abandoned"}
        /\ creating' \in {"start", "serving"} => sockets'
    BY <1>5 DEF Bound, Listen, Yield, ServingInv, ServingTypeOK
  <2> QED
    BY <2>1 DEF ServingInv, ServingTypeOK
<1>6. CASE CloseServer
  <2>1. CASE clients = {}
    BY <1>6, <2>1 DEF CloseServer, StopServing, Wakeup, ServingInv, ServingTypeOK
  <2>2. CASE clients # {}
    BY <1>6, <2>2 DEF CloseServer, StopServing, ServingInv, ServingTypeOK
  <2> QED
    BY <2>1, <2>2
<1>7. ASSUME NEW c \in Callers, WaitClosed(c) PROVE ServingInv'
  <2>1. CASE gone
    BY <1>7, <2>1 DEF WaitClosed, ServingInv, ServingTypeOK
  <2>2. CASE ~gone
    BY <1>7, <2>2 DEF WaitClosed, ServingInv, ServingTypeOK
  <2> QED
    BY <2>1, <2>2
<1>8. CASE Detach(Client) /\ UNCHANGED <<creating, infos, opened, listening, sockets>>
  <2>1. CASE clients \ {Client} = {} /\ ~sockets
    BY <1>8, <2>1 DEF Detach, Wakeup, ServingInv, ServingTypeOK
  <2>2. CASE ~(clients \ {Client} = {} /\ ~sockets)
    BY <1>8, <2>2 DEF Detach, ServingInv, ServingTypeOK
  <2> QED
    BY <2>1, <2>2
<1> QED
  BY <1>1, <1>2, <1>3, <1>4, <1>5, <1>6, <1>7, <1>8 DEF ServingMove, CreateStep

LEMMA ServingMoves == [ConnNext]_connectionVars => ServingMove
<1> SUFFICES ASSUME [ConnNext]_connectionVars PROVE ServingMove
  OBVIOUS
<1>1. ASSUME NEW t \in Tasks, TaskStep(t) PROVE UNCHANGED servingVars
  <2>1. CASE TaskQuiet(t)
    <3>1. CASE Write(t) \/ WriteOutgoing(t) \/ WriteEof(t) \/ Suspend(t) \/ Requeue(t)
      BY <3>1 DEF Write, WriteOutgoing, WriteEof, Suspend, Requeue
    <3>2. CASE Drain(t) \/ DrainHelper(t) \/ DrainWoken(t) \/ ReadStart(t) \/ ReadLook(t)
               \/ WaitPaused(t)
      BY <3>2 DEF Drain, DrainHelper, DrainWoken, ReadStart, ReadLook, WaitPaused
    <3>3. CASE WaitForData(t) \/ WaitWoken(t) \/ ReadCopy(t)
         \/ ReadDelete(t)
          \/ MaybeResume(t) \/ StartTls(t)
      BY <3>3 DEF WaitForData, WaitWoken, ReadCopy, ReadDelete, MaybeResume, StartTls
    <3> QED
      BY <2>1, <3>1, <3>2, <3>3 DEF TaskQuiet
  <2>2. CASE WriteEnter(t) \/ WriteRaw(t) \/ CloseTransport(t) \/ AbortTransport(t) \/ CloseTls(t)
             \/ Resume(t) \/ StartTlsEnd(t)
    BY <2>2 DEF WriteEnter, WriteRaw, CloseTransport, AbortTransport, CloseTls, Resume, StartTlsEnd
  <2> QED
    BY <1>1, <2>1, <2>2 DEF TaskStep, TaskQuiet
<1>2. ASSUME NEW r \in Readers, ReadStep(r) PROVE UNCHANGED servingVars
  BY <1>2 DEF ReadStep, ReadCheck, ReadRun
<1>3. CASE WritePut \/ Lost
  <2>1. CallConnectionLost \/ UNCHANGED servingVars
    BY <1>3 DEF WritePut, Lost
  <2> QED
    BY <2>1 DEF CallConnectionLost, ServingMove
<1>4. CASE WriteReady \/ Startup \/ Begin \/ SslWrite \/ BeginResume \/ DoRead \/ CloseUnwrapped
  BY <1>4 DEF WriteReady, Startup, Begin, SslWrite, BeginResume, DoRead, CloseUnwrapped, ServingMove
<1>5. CASE HandshakeComplete \/ ShutdownComplete \/ SslTimeout
           \/ HandshakeError \/ DeferExpires \/ GiveUp
           \/ PeerSends \/ PeerEnds
  BY <1>5 DEF HandshakeComplete, ShutdownComplete, SslTimeout, HandshakeError,
     HandshakeFails, HandshakeTimeout, ShutdownTimeout,
              DeferExpires, GiveUp, PeerSends, PeerEnds, ServingMove
<1>6. CASE Accept \/ ServerStep
  BY <1>6 DEF Accept, ServerStep, ServingMove
<1>7. CASE UNCHANGED connectionVars
  BY <1>7 DEF connectionVars, ServingMove
<1> QED
  BY <1>1, <1>2, <1>3, <1>4, <1>5, <1>6, <1>7
     DEF ConnNext, WriteStep, HandleStep, ServingMove

LEMMA ServingInit == ConnInit => ServingInv
<1> SUFFICES ASSUME ConnInit PROVE ServingInv
  OBVIOUS
<1>1. PICK A \in SUBSET Addresses : CreateServer(A)
  BY DEF ConnInit
<1> QED
  BY <1>1 DEF CreateServer, ServingInv, ServingTypeOK

LEMMA ServingHolds == ConnSpec => []ServingInv
  BY ServingInit, ServingMoves, ServingMoveStep, PTL DEF ConnSpec

\* A create_server that fails while it binds, and a server that is closed, have closed every
\* socket they made, and a closed server's last client, or its close, whichever comes later,
\* wakes all who wait in wait_closed; for every set of addresses and of callers
\* (create_server, Server._detach, close, wait_closed).  A create_server that fails after the
\* last bind has no such end, and the theorem says nothing of it.
THEOREM ServersDrain == ConnSpec => []ServerDrains
<1>1. ServingInv => ServerDrains
  BY DEF ServingInv, ServerDrains
<1> QED
  BY <1>1, ServingHolds, PTL

-----------------------------------------------------------------------------
\* The claims and the readers.

\* A task has claimed what it holds; a reader that has looked and not given up waiting has
\* seen nobody, so all who hold a claim have come since.
StandInv ==
  /\ ClaimsTyped
  /\ held = claims
  /\ \A r \in Readers : rpc[r] = "checked" => forced[r] \/ held \subseteq late[r]

claimState == <<claimVars, held, readVars>>

LEMMA ClaimStep ==
  ASSUME NEW t \in Tasks, StandInv, Claim(t), UNCHANGED <<deferred, since, rpc, forced, requeued>>
  PROVE  StandInv'
<1>1. CASE t \in held
  BY <1>1 DEF Claim, StandInv, ClaimsTyped
<1>2. CASE t \notin held
  <2>1. /\ held' = held \cup {t} /\ claims' = claims \cup {t}
        /\ late' = [r \in Readers |-> IF rpc[r] = "checked" THEN late[r] \cup {t} ELSE late[r]]
    BY <1>2 DEF Claim
  <2> QED
    BY <2>1 DEF StandInv, ClaimsTyped
<1> QED
  BY <1>1, <1>2

LEMMA TaskStand == ASSUME NEW t \in Tasks, StandInv, TaskStep(t) PROVE StandInv'
<1> USE DEF claimVars, readVars
<1>1. CASE Write(t) \/ WriteOutgoing(t)
  <2>1. UNCHANGED <<deferred, since, rpc, forced, requeued>>
    BY <1>1 DEF Write, WriteOutgoing
  <2>2. Claim(t) \/ UNCHANGED <<held, claims, late>>
    BY <1>1 DEF Write, WriteOutgoing
  <2> QED
    BY <2>1, <2>2, ClaimStep DEF StandInv, ClaimsTyped
<1>2. CASE Suspend(t)
  <2>1. UNCHANGED <<since, readVars>> /\ deferred' \in BOOLEAN
    BY <1>2 DEF Suspend, StandInv, ClaimsTyped
  <2>2. UNCHANGED <<held, claims>> \/ (held' = held \ {t} /\ claims' = claims \ {t})
    BY <1>2 DEF Suspend, ReleaseClaim
  <2> QED
    BY <2>1, <2>2 DEF StandInv, ClaimsTyped
<1>3. CASE Requeue(t)
  BY <1>3 DEF Requeue, StandInv, ClaimsTyped
<1>4. CASE UNCHANGED claimState
  BY <1>4 DEF claimState, StandInv, ClaimsTyped
<1>5. CASE WriteEof(t) \/ Drain(t) \/ DrainHelper(t) \/ DrainWoken(t) \/ ReadStart(t) \/ ReadLook(t)
           \/ WaitPaused(t)
  BY <1>4, <1>5
     DEF WriteEof, Drain, DrainHelper, DrainWoken, ReadStart, ReadLook, WaitPaused, claimState
<1>6. CASE WaitForData(t) \/ WaitWoken(t) \/ ReadCopy(t)
         \/ ReadDelete(t)
          \/ MaybeResume(t) \/ StartTls(t)
  BY <1>4, <1>6 DEF WaitForData, WaitWoken, ReadCopy, ReadDelete, MaybeResume, StartTls, claimState
<1>7. CASE WriteEnter(t) \/ WriteRaw(t) \/ CloseTransport(t) \/ AbortTransport(t) \/ CloseTls(t)
           \/ Resume(t) \/ StartTlsEnd(t)
  BY <1>4, <1>7 DEF WriteEnter, WriteRaw, CloseTransport, AbortTransport, CloseTls, Resume,
                    StartTlsEnd, claimState
<1> QED
  BY <1>1, <1>2, <1>3, <1>5, <1>6, <1>7 DEF TaskStep

LEMMA ReadStand == ASSUME NEW r \in Readers, StandInv, ReadStep(r) PROVE StandInv'
<1> USE DEF claimVars, readVars
<1>1. CASE ReadRun(r)
  <2>1. rpc' = [rpc EXCEPT ![r] = "idle"] /\ UNCHANGED <<claimVars, held, late, forced, requeued>>
    BY <1>1 DEF ReadRun
  <2> QED
    BY <2>1 DEF StandInv, ClaimsTyped
<1>2. CASE ReadCheck(r)
  <2>1. UNCHANGED <<held, claims>> /\ requeued' \in Nat
    BY <1>2 DEF ReadCheck, taskVars, StandInv, ClaimsTyped
  <2>2. CASE claims # {} /\ since # "old"
    BY <1>2, <2>1, <2>2 DEF ReadCheck, StandInv, ClaimsTyped
  <2>3. CASE ~(claims # {} /\ since # "old")
    <3>1. /\ deferred' = FALSE /\ since' = "none"
          /\ rpc' = [rpc EXCEPT ![r] = "checked"] /\ late' = [late EXCEPT ![r] = {}]
          /\ forced' = [forced EXCEPT ![r] = claims # {}]
      BY <1>2, <2>3 DEF ReadCheck
    <3> QED
      BY <2>1, <3>1 DEF StandInv, ClaimsTyped
  <2> QED
    BY <2>2, <2>3
<1> QED
  BY <1>1, <1>2 DEF ReadStep

LEMMA StandStep == StandInv /\ [ConnNext]_connectionVars => StandInv'
<1> SUFFICES ASSUME StandInv, [ConnNext]_connectionVars PROVE StandInv'
  OBVIOUS
<1> USE DEF claimVars, readVars, taskVars
<1>1. ASSUME NEW t \in Tasks, TaskStep(t) PROVE StandInv'
  BY <1>1, TaskStand
<1>2. ASSUME NEW r \in Readers, ReadStep(r) PROVE StandInv'
  BY <1>2, ReadStand
<1>3. CASE UNCHANGED claimState
  BY <1>3 DEF claimState, StandInv, ClaimsTyped
<1>4. CASE WriteReady \/ WritePut \/ Startup \/ Lost \/ Begin \/ SslWrite \/ BeginResume \/ DoRead
  BY <1>3, <1>4 DEF WriteReady, WritePut, Startup, Lost, Begin, SslWrite, BeginResume, DoRead,
                    claimState
<1>5. CASE CloseUnwrapped \/ HandshakeComplete \/ ShutdownComplete \/ SslTimeout
         \/ HandshakeError \/ GiveUp
           \/ PeerSends \/ PeerEnds \/ Accept \/ ServerStep
  BY <1>3, <1>5 DEF CloseUnwrapped, HandshakeComplete, ShutdownComplete, SslTimeout,
     HandshakeError, HandshakeFails, HandshakeTimeout,
                    ShutdownTimeout, GiveUp, PeerSends, PeerEnds, Accept, ServerStep, claimState
<1>6. CASE DeferExpires
  BY <1>6 DEF DeferExpires, StandInv, ClaimsTyped
<1>7. CASE UNCHANGED connectionVars
  BY <1>3, <1>7 DEF connectionVars, claimState
<1> QED
  BY <1>1, <1>2, <1>4, <1>5, <1>6, <1>7 DEF ConnNext, WriteStep, HandleStep

LEMMA StandInit == ConnInit => StandInv
<1> SUFFICES ASSUME ConnInit PROVE StandInv
  OBVIOUS
<1>1. /\ claims = {} /\ held = {} /\ deferred = FALSE /\ since = "none" /\ requeued = 0
      /\ rpc = [r \in Readers |-> "idle"] /\ late = [r \in Readers |-> {}]
      /\ forced = [r \in Readers |-> FALSE]
  BY DEF ConnInit, TransportInit
<1> QED
  BY <1>1 DEF StandInv, ClaimsTyped

LEMMA StandHolds == ConnSpec => []StandInv
  BY StandInit, StandStep, PTL DEF ConnSpec

\* The protocol is given data only when no task is between a write and its next suspension,
\* but for those that came after the reader had looked, or that kept it waiting too long; for
\* every number of tasks and readers (_read_ready, _mt_claim, _mt_release_claim).
THEOREM ReadersStandAside == ConnSpec => ReadStandsAside
<1>1. StandInv /\ [ConnNext]_connectionVars =>
        [\A r \in Readers : rpc[r] = "checked" /\ inbox' < inbox =>
           rpc'[r] = "checked" \/ forced[r] \/ held \subseteq late[r]]_connectionVars
  BY DEF StandInv
<1> QED
  BY <1>1, StandHolds, PTL DEF ConnSpec, ReadStandsAside

-----------------------------------------------------------------------------
\* The tasks and the stream they read.

ReadingPCs == {"check", "paused", "resume", "look", "take", "clear", "delete", "maybe", "resumed"}
WaitPCs    == {"suspend", "requeue", "parked"}

ReadingOp(t) == Op(t) \in {"read", "exact"}

\* There is something to read, or nothing will come any more.
Something == rbuf > 0 \/ ending # "no"

\* One task at most reads from the stream, as asyncio asks of its applications:
\* _wait_for_data raises if it finds another one waiting.
SoleReader ==
  \A t, u \in Tasks :
    (\E i \in DOMAIN setup.script[t] : setup.script[t][i] \in {"read", "exact"})
    /\ (\E i \in DOMAIN setup.script[u] : setup.script[u][i] \in {"read", "exact"})
    => t = u

\* Who is awaited, and who waits.
Placed(t) ==
  /\ tpc[t] \in ReadingPCs => ReadingOp(t)
  /\ tpc[t] = "helper" => Op(t) = "drain"
  /\ t \in awake => tpc[t] \in WaitPCs /\ (ReadingOp(t) \/ Op(t) = "starttls" \/ t \in drainers)
  /\ t \in drainers => tpc[t] \in WaitPCs /\ Op(t) = "drain"
  /\ waiter = t => tpc[t] \in WaitPCs /\ ReadingOp(t)

\* A reader is woken, and takes from the buffer, for a reason.
Served(t) ==
  /\ t \in awake /\ ReadingOp(t) => Something
  /\ tpc[t] = "take" /\ Op(t) = "read" => Something

\* What is read has arrived, and is in one place.
Conserved == rbuf + incoming + inbox <= peerSent

StreamInv ==
  /\ LinkTyped /\ StreamTyped /\ TaskTyped /\ Conserved
  /\ \A t \in Tasks : Placed(t)
  /\ SoleReader => \A t \in Tasks : Served(t)

LEMMA ReadersAlone ==
  ASSUME SoleReader, NEW t \in Tasks, NEW u \in Tasks, ReadingOp(t), ReadingOp(u) PROVE t = u
  BY DEF SoleReader, ReadingOp, Op

-----------------------------------------------------------------------------
\* A step that moves the tasks of M, and wakes others for a reason.

Roused(t) ==
  /\ tpc[t] \in WaitPCs
  /\ (ReadingOp(t) /\ Something') \/ Op(t) = "starttls" \/ t \in drainers

StreamMoves(M) ==
  /\ UNCHANGED setup
  /\ \A t \in Tasks \ M : tpc'[t] = tpc[t] /\ at'[t] = at[t] /\ (t \in drainers' <=> t \in drainers)
  /\ \A t \in Tasks \ M : t \in awake' => t \in awake \/ Roused(t)
  /\ waiter' \in {waiter, Nobody} \cup M

LEMMA OpKept ==
  ASSUME NEW t \in Tasks, UNCHANGED setup, at'[t] = at[t]
  PROVE  Op(t)' = Op(t) /\ (ReadingOp(t)' <=> ReadingOp(t))
  BY DEF Op, ReadingOp

LEMMA MovesPlaced ==
  ASSUME NEW M \in SUBSET Tasks, \A t \in Tasks : Placed(t), StreamMoves(M), \A t \in M : Placed(t)'
  PROVE  \A t \in Tasks : Placed(t)'
<1> SUFFICES ASSUME NEW t \in Tasks, t \notin M PROVE Placed(t)'
  OBVIOUS
<1>1. /\ tpc'[t] = tpc[t] /\ Op(t)' = Op(t) /\ (ReadingOp(t)' <=> ReadingOp(t))
      /\ t \in drainers' <=> t \in drainers
  BY OpKept DEF StreamMoves
<1>2. t \in awake' => t \in awake \/ Roused(t)
  BY DEF StreamMoves
<1>3. waiter' = t => waiter = t
  BY ConnNoneAssumption DEF StreamMoves, Senders
<1> QED
  BY <1>1, <1>2, <1>3 DEF Placed, Roused

LEMMA MovesServed ==
  ASSUME NEW M \in SUBSET Tasks, \A t \in Tasks : Placed(t) /\ Served(t), StreamMoves(M),
         Something => Something', \A t \in M : Served(t)'
  PROVE  \A t \in Tasks : Served(t)'
<1> SUFFICES ASSUME NEW t \in Tasks, t \notin M PROVE Served(t)'
  OBVIOUS
<1>1. tpc'[t] = tpc[t] /\ Op(t)' = Op(t) /\ (ReadingOp(t)' <=> ReadingOp(t))
  BY OpKept DEF StreamMoves
<1>2. t \in awake' => t \in awake \/ Roused(t)
  BY DEF StreamMoves
<1>3. t \in drainers => ~ReadingOp(t)
  BY DEF Placed, ReadingOp
<1>4. Op(t) = "starttls" => ~ReadingOp(t)
  BY DEF ReadingOp
<1> QED
  BY <1>1, <1>2, <1>3, <1>4 DEF Served, Roused

\* The same, with the types: what a step that reads nothing has to show.
LEMMA MovesStream ==
  ASSUME StreamInv, NEW M \in SUBSET Tasks, StreamMoves(M), LinkTyped', StreamTyped', TaskTyped',
         Conserved',
         Something => Something', \A t \in M : Placed(t)',
         \A t \in M : SoleReader => Served(t)'
  PROVE  StreamInv'
<1>1. \A t \in Tasks : Placed(t)'
  BY MovesPlaced DEF StreamInv
<1>2. SoleReader' <=> SoleReader
  BY DEF SoleReader, StreamMoves
<1>3. SoleReader => \A t \in Tasks : Served(t)'
  BY MovesServed DEF StreamInv
<1> QED
  BY <1>1, <1>2, <1>3 DEF StreamInv

\* Nobody moves, and nobody is woken.
LEMMA StreamKept ==
  ASSUME StreamInv, LinkTyped', UNCHANGED <<setup, streamVars, flowVars, incoming, resume,
                                            peerVars, taskVars>>
  PROVE  StreamInv'
<1> USE DEF streamVars, flowVars, peerVars, taskVars
<1>1. StreamMoves({})
  BY DEF StreamMoves
<1>2. StreamTyped' /\ TaskTyped' /\ Conserved' /\ (Something => Something')
  BY DEF StreamInv, StreamTyped, TaskTyped, Conserved, Something
<1> QED
  BY <1>1, <1>2, MovesStream

\* Where a task may go: the program counter follows it.
Goes(t, l) ==
  \/ GoTo(t, l) /\ UNCHANGED at
  \/ l = "op" /\ (Return(t) \/ Raise(t))

LEMMA GoesFacts ==
  ASSUME NEW t \in Tasks, NEW l \in ConnPCs, LinkTyped, TaskTyped, Goes(t, l)
  PROVE  /\ tpc' \in [Tasks -> ConnPCs] /\ at' \in [Tasks -> Nat] /\ tpc'[t] = l
         /\ \A u \in Tasks \ {t} : tpc'[u] = tpc[u] /\ at'[u] = at[u]
         /\ l # "op" => at' = at
<1>1. Len(setup.script[t]) \in Nat
  BY ConnAppFacts DEF LinkTyped
<1> QED
  BY <1>1 DEF Goes, GoTo, Return, Raise, TaskTyped, ConnPCs

\* The task goes on by itself.
LEMMA AdvanceStream ==
  ASSUME StreamInv, LinkTyped', NEW t \in Tasks, NEW l \in ConnPCs, Goes(t, l),
         Something => Something',
         UNCHANGED <<setup, awake, thrown, drainers, waiter>>, StreamTyped', Conserved',
         wpaused' \in BOOLEAN, resume' \in BOOLEAN,
         t \in awake \/ t \in drainers \/ waiter = t => l \in WaitPCs,
         l \in ReadingPCs => ReadingOp(t), l = "helper" => Op(t) = "drain",
         l = "take" /\ Op(t) = "read" /\ SoleReader => Something
  PROVE  StreamInv'
<1>0. LinkTyped /\ TaskTyped /\ Placed(t) /\ (SoleReader => Served(t))
  BY DEF StreamInv
<1>1. /\ tpc' \in [Tasks -> ConnPCs] /\ at' \in [Tasks -> Nat] /\ tpc'[t] = l
      /\ \A u \in Tasks \ {t} : tpc'[u] = tpc[u] /\ at'[u] = at[u]
      /\ l # "op" => at' = at
  BY <1>0, GoesFacts
<1>2. TaskTyped'
  BY <1>0, <1>1 DEF TaskTyped
<1>3. StreamMoves({t})
  BY <1>1 DEF StreamMoves
<1>4. l # "op" => Op(t)' = Op(t) /\ (ReadingOp(t)' <=> ReadingOp(t))
  BY <1>1, OpKept
<1>5. Placed(t)'
  BY <1>0, <1>1, <1>4 DEF Placed, ReadingPCs, WaitPCs
<1>6. SoleReader => Served(t)'
  BY <1>0, <1>1, <1>4 DEF Served, WaitPCs
<1> QED
  BY <1>2, <1>3, <1>5, <1>6, MovesStream

\* ... and nothing else happens to the stream.
LEMMA AdvanceOnly ==
  ASSUME StreamInv, LinkTyped', NEW t \in Tasks, NEW l \in ConnPCs, Goes(t, l),
         UNCHANGED <<setup, rbuf, ending, feedGen, seenGen, waiter, drainers, incoming, peerVars,
                     awake, thrown>>,
         rpaused' \in BOOLEAN, wpaused' \in BOOLEAN, resume' \in BOOLEAN,
         t \in awake \/ t \in drainers \/ waiter = t => l \in WaitPCs,
         l \in ReadingPCs => ReadingOp(t), l = "helper" => Op(t) = "drain",
         l = "take" /\ Op(t) = "read" /\ SoleReader => Something
  PROVE  StreamInv'
<1>1. StreamTyped' /\ Conserved' /\ (Something => Something')
  BY DEF StreamInv, StreamTyped, Conserved, Something, peerVars
<1> QED
  BY <1>1, AdvanceStream

\* A task that does not wait is on nobody's list.
LEMMA RunningIsFree ==
  ASSUME StreamInv, NEW t \in Tasks, tpc[t] \notin WaitPCs
  PROVE  t \notin awake /\ t \notin drainers /\ waiter # t
  BY DEF StreamInv, Placed

LEMMA TaskFlags == StreamInv => rpaused \in BOOLEAN /\ wpaused \in BOOLEAN /\ resume \in BOOLEAN
  BY DEF StreamInv, StreamTyped, TaskTyped

\* The operations that do not read, and do not wait.
LEMMA WritingStream ==
  ASSUME StreamInv, LinkTyped', NEW t \in Tasks,
         Write(t) \/ WriteEnter(t) \/ WriteOutgoing(t) \/ WriteRaw(t) \/ WriteEof(t)
         \/ CloseTransport(t) \/ AbortTransport(t) \/ Drain(t) \/ StartTls(t)
  PROVE  StreamInv'
<1> USE DEF streamVars, flowVars, peerVars, taskVars, tlsVars
<1>1. tpc[t] \notin WaitPCs
  BY DEF Write, WriteEnter, WriteOutgoing, WriteRaw, WriteEof, CloseTransport, AbortTransport,
     Drain,
         StartTls, Runs, WaitPCs
<1>2. PICK l \in {"op", "enter", "outgoing", "raw", "helper", "suspend"} :
        Goes(t, l) /\ (l = "helper" => Op(t) = "drain")
  <2>1. CASE Write(t) \/ WriteOutgoing(t) \/ WriteRaw(t)
    BY <2>1 DEF Write, WriteOutgoing, WriteRaw, Goes
  <2>2. CASE WriteEnter(t) \/ WriteEof(t)
    BY <2>2 DEF WriteEnter, WriteEof, Goes
  <2>3. CASE CloseTransport(t) \/ AbortTransport(t) \/ Drain(t) \/ StartTls(t)
    BY <2>3 DEF CloseTransport, AbortTransport, Drain, StartTls, Goes, Runs
  <2> QED
    BY <2>1, <2>2, <2>3
<1>3. l \in ConnPCs /\ l \notin ReadingPCs /\ l # "take"
  BY DEF ConnPCs, ReadingPCs
<1>4. UNCHANGED <<setup, rbuf, rpaused, ending, feedGen, seenGen, waiter, drainers, incoming,
                  peerVars,
                  awake, thrown, resume>>
  <2>1. CASE Write(t) \/ WriteEnter(t) \/ WriteOutgoing(t) \/ WriteRaw(t)
    BY <2>1 DEF Write, WriteEnter, WriteOutgoing, WriteRaw
  <2>2. CASE WriteEof(t) \/ CloseTransport(t) \/ AbortTransport(t) \/ Drain(t) \/ StartTls(t)
    BY <2>2 DEF WriteEof, CloseTransport, AbortTransport, Drain, StartTls
  <2> QED
    BY <2>1, <2>2
<1>5. wpaused' \in BOOLEAN
  <2>1. CASE WriteRaw(t)
    BY <2>1, TaskFlags DEF WriteRaw, RawWrite
  <2>2. CASE Write(t) \/ WriteEnter(t) \/ WriteOutgoing(t) \/ WriteEof(t)
    BY <2>2, TaskFlags DEF Write, WriteEnter, WriteOutgoing, WriteEof
  <2>3. CASE CloseTransport(t) \/ AbortTransport(t) \/ Drain(t) \/ StartTls(t)
    BY <2>3, TaskFlags DEF CloseTransport, AbortTransport, Drain, StartTls
  <2> QED
    BY <2>1, <2>2, <2>3
<1> QED
  BY <1>1, <1>2, <1>3, <1>4, <1>5, TaskFlags, RunningIsFree, AdvanceOnly

\* A suspended task that is on a list stays where it can be woken.
LEMMA SuspendedPlace ==
  ASSUME StreamInv, NEW t \in Tasks
  PROVE  /\ Suspended(t) \in {"done", "helper", "parked"} /\ (Suspended(t) = "helper" => Op(t) = "drain")
         /\ t \in awake \/ t \in drainers \/ waiter = t => Suspended(t) = "parked"
  BY DEF StreamInv, Placed, Suspended, ReadingOp

LEMMA SuspendStream ==
  ASSUME StreamInv, LinkTyped', NEW t \in Tasks, Suspend(t) \/ Requeue(t) PROVE StreamInv'
<1> USE DEF streamVars, flowVars, peerVars, tlsVars
<1>1. PICK l \in {"requeue", Suspended(t)} : Goes(t, l)
  <2>1. CASE Suspend(t)
    BY <2>1 DEF Suspend, Goes
  <2>2. CASE Requeue(t)
    BY <2>2 DEF Requeue, Goes
  <2> QED
    BY <2>1, <2>2
<1>2. /\ l \in ConnPCs /\ l \notin ReadingPCs /\ l # "take" /\ (l = "helper" => Op(t) = "drain")
      /\ t \in awake \/ t \in drainers \/ waiter = t => l \in WaitPCs
  BY SuspendedPlace DEF ConnPCs, ReadingPCs, WaitPCs
<1>3. UNCHANGED <<setup, rbuf, rpaused, ending, feedGen, seenGen, waiter, flowVars, incoming,
                  peerVars,
                  awake, thrown, resume>>
  BY DEF Suspend, Requeue
<1> QED
  BY <1>1, <1>2, <1>3, TaskFlags, AdvanceOnly

\* The looks of a reader.
LEMMA LookingStream ==
  ASSUME StreamInv, LinkTyped', NEW t \in Tasks,
         ReadStart(t) \/ ReadLook(t) \/ WaitPaused(t) \/ Resume(t) \/ ReadCopy(t) \/ MaybeResume(t)
  PROVE  StreamInv'
<1> USE DEF streamVars, flowVars, peerVars, tlsVars
<1>1. tpc[t] \notin WaitPCs
  BY DEF ReadStart, ReadLook, WaitPaused, Resume, ReadCopy, MaybeResume, WaitPCs
<1>2. ReadingOp(t)
  <2>1. CASE ReadStart(t)
    BY <2>1 DEF ReadStart, ReadingOp
  <2>2. CASE ReadLook(t) \/ WaitPaused(t) \/ Resume(t) \/ ReadCopy(t) \/ MaybeResume(t)
    <3>1. tpc[t] \in ReadingPCs
      BY <2>2 DEF ReadLook, WaitPaused, Resume, ReadCopy, MaybeResume, ReadingPCs
    <3> QED
      BY <3>1 DEF StreamInv, Placed
  <2> QED
    BY <2>1, <2>2
<1>3. PICK l \in ReadingPCs \cup {"op"} : Goes(t, l) /\ (l = "take" /\ Op(t) = "read" => Something)
  <2>1. CASE ReadStart(t)
    BY <2>1 DEF ReadStart, Goes, ReadingPCs
  <2>2. CASE ReadLook(t)
    <3>1. CASE (Op(t) = "read" /\ (rbuf > 0 \/ ending = "eof")) \/ (Op(t) = "exact" /\ rbuf >= setup.need)
      <4>1. Goes(t, "take") /\ (Op(t) = "read" => Something)
        BY <2>2, <3>1 DEF ReadLook, Goes, Something
      <4> QED
        BY <4>1 DEF ReadingPCs
    <3>2. CASE ~((Op(t) = "read" /\ (rbuf > 0 \/ ending = "eof")) \/ (Op(t) = "exact" /\ rbuf >= setup.need))
      <4>1. Goes(t, "op") \/ Goes(t, "paused")
        BY <2>2, <3>2 DEF ReadLook, Goes
      <4> QED
        BY <4>1 DEF ReadingPCs
    <3> QED
      BY <3>1, <3>2
  <2>3. CASE WaitPaused(t) \/ MaybeResume(t)
    <3>1. Goes(t, "op") \/ Goes(t, "resume") \/ Goes(t, "look") \/ Goes(t, "resumed")
      BY <2>3 DEF WaitPaused, MaybeResume, Goes
    <3> QED
      BY <3>1 DEF ReadingPCs
  <2>4. CASE Resume(t)
    <3>1. Goes(t, "look") \/ Goes(t, "op")
      BY <2>4 DEF Resume, Goes
    <3> QED
      BY <3>1 DEF ReadingPCs
  <2>5. CASE ReadCopy(t)
    <3>1. Goes(t, "clear") \/ Goes(t, "delete")
      BY <2>5 DEF ReadCopy, Goes
    <3> QED
      BY <3>1 DEF ReadingPCs
  <2> QED
    BY <2>1, <2>2, <2>3, <2>4, <2>5
<1>4. l \in ConnPCs /\ l # "helper"
  BY DEF ConnPCs, ReadingPCs
<1>5. UNCHANGED <<setup, rbuf, ending, feedGen, seenGen, waiter, flowVars, incoming, peerVars,
                  awake,
                  thrown>>
  BY DEF ReadStart, ReadLook, WaitPaused, Resume, ReadCopy, MaybeResume
<1>6. rpaused' \in BOOLEAN /\ resume' \in BOOLEAN
  BY TaskFlags DEF ReadStart, ReadLook, WaitPaused, Resume, ReadCopy, MaybeResume, ResumeReading, ResumeSsl
<1> QED
  BY <1>1, <1>2, <1>3, <1>4, <1>5, <1>6, TaskFlags, RunningIsFree, AdvanceOnly

\* _wait_for_data: the task goes back, or waits.
LEMMA WaitForDataStream ==
  ASSUME StreamInv, LinkTyped', NEW t \in Tasks, WaitForData(t) PROVE StreamInv'
<1> USE DEF streamVars, flowVars, peerVars, tlsVars
<1>0. tpc[t] = "look" /\ ReadingOp(t) /\ LinkTyped /\ StreamTyped /\ TaskTyped /\ Placed(t)
  <2>1. tpc[t] = "look"
    BY DEF WaitForData
  <2> QED
    BY <2>1 DEF StreamInv, Placed, ReadingPCs
<1>1. t \notin awake /\ t \notin drainers /\ waiter # t
  BY <1>0, RunningIsFree DEF WaitPCs
<1>2. /\ UNCHANGED <<setup, rbuf, rpaused, ending, feedGen, drainers, wpaused, resume, incoming,
                     peerVars,
                     awake, thrown, at>>
      /\ seenGen' = feedGen
  BY DEF WaitForData, WaitLook
<1>3. Conserved' /\ (Something => Something')
  BY <1>2 DEF StreamInv, Conserved, Something
<1>4. CASE (feedGen # seenGen /\ rbuf > 0) \/ ending # "no"
  <2>1. GoTo(t, Look(t)) /\ UNCHANGED waiter /\ Look(t) \in {"take", "check"} /\ Something
    BY <1>4 DEF WaitForData, WaitLook, Look, Something
  <2>2. Goes(t, Look(t)) /\ Look(t) \in ConnPCs /\ StreamTyped'
    BY <1>0, <1>2, <2>1 DEF Goes, ConnPCs, StreamTyped
  <2> QED
    BY <1>0, <1>1, <1>2, <1>3, <2>1, <2>2, TaskFlags, AdvanceStream
<1>5. CASE ~((feedGen # seenGen /\ rbuf > 0) \/ ending # "no")
  <2>1. GoTo(t, "suspend") /\ waiter' = t
    BY <1>5 DEF WaitForData, WaitLook
  <2>2. Goes(t, "suspend") /\ "suspend" \in ConnPCs
    BY <1>2, <2>1 DEF Goes, ConnPCs
  <2>3. /\ tpc' \in [Tasks -> ConnPCs] /\ tpc'[t] = "suspend"
        /\ \A u \in Tasks \ {t} : tpc'[u] = tpc[u]
    BY <1>0, <2>2, GoesFacts
  <2>4. StreamTyped' /\ TaskTyped' /\ StreamMoves({t})
    BY <1>0, <1>2, <2>1, <2>3 DEF StreamTyped, TaskTyped, StreamMoves
  <2>5. Op(t)' = Op(t) /\ ReadingOp(t)'
    BY <1>0, <1>2, OpKept
  <2>6. Placed(t)' /\ Served(t)'
    BY <1>1, <1>2, <2>3, <2>5 DEF Placed, Served, ReadingPCs, WaitPCs
  <2> QED
    BY <1>3, <2>4, <2>6, MovesStream
<1> QED
  BY <1>4, <1>5

LEMMA WaitWokenStream ==
  ASSUME StreamInv, LinkTyped', NEW t \in Tasks, WaitWoken(t) PROVE StreamInv'
<1> USE DEF streamVars, flowVars, peerVars, tlsVars
<1>0. /\ LinkTyped /\ StreamTyped /\ TaskTyped /\ Placed(t) /\ (SoleReader => Served(t))
      /\ t \in awake /\ ReadingOp(t)
  BY DEF StreamInv, WaitWoken, ReadingOp
<1>1. /\ UNCHANGED <<setup, rbuf, rpaused, ending, feedGen, drainers, wpaused, resume, incoming,
                     peerVars>>
      /\ awake' = awake \ {t} /\ thrown' = thrown \ {t} /\ waiter' = Nobody /\ seenGen' = feedGen
  BY DEF WaitWoken
<1>2. PICK l \in {"op", Look(t)} : Goes(t, l)
  BY DEF WaitWoken, Goes
<1>3. l \in {"op", "take", "check"} /\ l \in ConnPCs
  BY DEF Look, ConnPCs
<1>4. /\ tpc' \in [Tasks -> ConnPCs] /\ at' \in [Tasks -> Nat] /\ tpc'[t] = l
      /\ \A u \in Tasks \ {t} : tpc'[u] = tpc[u] /\ at'[u] = at[u]
      /\ l # "op" => at' = at
  BY <1>0, <1>2, <1>3, GoesFacts
<1>5. StreamTyped' /\ TaskTyped' /\ StreamMoves({t}) /\ Conserved' /\ (Something => Something')
  BY <1>0, <1>1, <1>4 DEF StreamInv, StreamTyped, TaskTyped, StreamMoves, Conserved, Something
<1>6. l # "op" => Op(t)' = Op(t) /\ ReadingOp(t)'
  BY <1>0, <1>1, <1>4, OpKept
<1>7. t \notin drainers
  BY <1>0 DEF Placed, ReadingOp
<1>8. waiter' # t /\ t \notin awake'
  BY <1>1, ConnNoneAssumption DEF Senders
<1>9. Placed(t)'
  BY <1>1, <1>3, <1>4, <1>6, <1>7, <1>8 DEF Placed, ReadingPCs
<1>10. SoleReader => Served(t)'
  BY <1>0, <1>3, <1>4, <1>5, <1>8 DEF Served
<1> QED
  BY <1>5, <1>9, <1>10, MovesStream

LEMMA SumLower ==
  ASSUME NEW a \in Nat, NEW b \in Nat, NEW c \in Nat, NEW d \in Nat, NEW e \in Nat,
         a <= b, b + c + d <= e
  PROVE  a + c + d <= e
  OBVIOUS

\* The one step that takes something away.
LEMMA ReadDeleteStream ==
  ASSUME StreamInv, LinkTyped', NEW t \in Tasks, ReadDelete(t) PROVE StreamInv'
<1> USE DEF streamVars, flowVars, peerVars, tlsVars
<1>0. /\ LinkTyped /\ StreamTyped /\ TaskTyped /\ tpc[t] \in {"clear", "delete"} /\ ReadingOp(t)
  <2>1. tpc[t] \in {"clear", "delete"}
    BY DEF ReadDelete
  <2> QED
    BY <2>1 DEF StreamInv, Placed, ReadingPCs
<1>1. /\ UNCHANGED <<setup, rpaused, ending, feedGen, seenGen, waiter, drainers, wpaused, resume,
                     incoming,
                     peerVars, awake, thrown, at>>
      /\ GoTo(t, "maybe") /\ rbuf' \in 0..rbuf
  <2>1. setup.need \in Nat /\ rbuf \in Nat
    BY <1>0, ConnAppFacts DEF LinkTyped, StreamTyped
  <2> QED
    BY <2>1 DEF ReadDelete
<1>2. Goes(t, "maybe") /\ "maybe" \in ConnPCs
  BY <1>1 DEF Goes, ConnPCs
<1>3. /\ tpc' \in [Tasks -> ConnPCs] /\ tpc'[t] = "maybe"
      /\ \A u \in Tasks \ {t} : tpc'[u] = tpc[u]
  BY <1>0, <1>2, GoesFacts
<1>4. setup.inbound \in Nat
  BY <1>0, ConnAppFacts DEF LinkTyped
<1>5. StreamTyped' /\ TaskTyped' /\ StreamMoves({t}) /\ Conserved'
  <2>1. TaskTyped' /\ StreamMoves({t})
    BY <1>0, <1>1, <1>3 DEF TaskTyped, StreamMoves
  <2>2. rbuf' \in 0..setup.inbound /\ rbuf' <= rbuf /\ rbuf \in Nat /\ rbuf' \in Nat
    BY <1>0, <1>1, <1>4 DEF StreamTyped
  <2>3. StreamTyped'
    BY <1>0, <1>1, <2>2 DEF StreamTyped
  <2>4. incoming \in Nat /\ inbox \in Nat /\ peerSent \in Nat
    BY <1>0, <1>4 DEF StreamTyped
  <2>5. Conserved'
    <3>1. incoming' = incoming /\ inbox' = inbox /\ peerSent' = peerSent
      BY <1>1
    <3>2. rbuf + incoming + inbox <= peerSent
      BY DEF StreamInv, Conserved
    <3>3. rbuf' + incoming + inbox <= peerSent
      BY <2>2, <2>4, <3>2, SumLower
    <3> QED
      BY <3>1, <3>3 DEF Conserved
  <2> QED
    BY <2>1, <2>3, <2>5
<1>6. t \notin awake /\ t \notin drainers /\ waiter # t
  BY <1>0, RunningIsFree DEF WaitPCs
<1>7. Op(t)' = Op(t) /\ ReadingOp(t)'
  BY <1>0, <1>1, OpKept
<1>8. Placed(t)'
  BY <1>1, <1>3, <1>6, <1>7 DEF Placed, ReadingPCs
<1>9. \A u \in Tasks : Placed(u)'
  BY <1>5, <1>8, MovesPlaced DEF StreamInv
<1>10. ASSUME SoleReader, NEW u \in Tasks PROVE Served(u)'
  <2>1. ReadingOp(u)' => u = t
    <3>1. ReadingOp(u)' <=> ReadingOp(u)
      BY <1>1, OpKept
    <3> QED
      BY <1>0, <1>10, <3>1, ReadersAlone
  <2>2. Op(u)' = "read" => ReadingOp(u)'
    BY DEF ReadingOp
  <2> QED
    BY <1>1, <1>3, <1>6, <2>1, <2>2 DEF Served
<1>11. SoleReader' <=> SoleReader
  BY <1>1 DEF SoleReader
<1> QED
  BY <1>5, <1>9, <1>10, <1>11 DEF StreamInv

\* drain, and the end of start_tls: the task enters a list, or leaves the ones it is on.
LEMMA DrainHelperStream ==
  ASSUME StreamInv, LinkTyped', NEW t \in Tasks, DrainHelper(t) PROVE StreamInv'
<1> USE DEF streamVars, flowVars, peerVars, tlsVars
<1>0. tpc[t] = "helper" /\ LinkTyped /\ StreamTyped /\ TaskTyped /\ Op(t) = "drain"
  <2>1. tpc[t] = "helper"
    BY DEF DrainHelper
  <2> QED
    BY <2>1 DEF StreamInv, Placed
<1>1. t \notin awake /\ t \notin drainers /\ waiter # t
  BY <1>0, RunningIsFree DEF WaitPCs
<1>2. UNCHANGED <<setup, rbuf, rpaused, ending, feedGen, seenGen, waiter, wpaused, resume, incoming,
                  peerVars, awake, thrown>>
  BY DEF DrainHelper
<1>3. CASE UNCHANGED drainers /\ Goes(t, "op")
  <2>1. "op" \in ConnPCs \ ReadingPCs
    BY DEF ConnPCs, ReadingPCs
  <2> QED
    BY <1>1, <1>2, <1>3, <2>1, TaskFlags, AdvanceOnly
<1>4. CASE drainers' = drainers \cup {t} /\ Goes(t, "suspend")
  <2>1. /\ tpc' \in [Tasks -> ConnPCs] /\ at' \in [Tasks -> Nat] /\ tpc'[t] = "suspend" /\ at' = at
        /\ \A u \in Tasks \ {t} : tpc'[u] = tpc[u] /\ at'[u] = at[u]
    BY <1>0, <1>4, GoesFacts DEF ConnPCs
  <2>2. TaskTyped' /\ StreamMoves({t})
    BY <1>0, <1>2, <1>4, <2>1 DEF TaskTyped, StreamMoves
  <2>3. StreamTyped' /\ Conserved' /\ (Something => Something')
    BY <1>0, <1>2 DEF StreamInv, StreamTyped, Conserved, Something
  <2>4. Op(t)' = "drain"
    BY <1>0, <1>2, <2>1, OpKept
  <2>5. Placed(t)' /\ Served(t)'
    BY <1>1, <1>2, <2>1, <2>4 DEF Placed, Served, ReadingPCs, WaitPCs
  <2> QED
    BY <2>2, <2>3, <2>5, MovesStream
<1>5. (UNCHANGED drainers /\ Goes(t, "op")) \/ (drainers' = drainers \cup {t} /\ Goes(t, "suspend"))
  BY DEF DrainHelper, Goes
<1> QED
  BY <1>3, <1>4, <1>5

LEMMA LeavesStream ==
  ASSUME StreamInv, LinkTyped', NEW t \in Tasks, DrainWoken(t) \/ StartTlsEnd(t) PROVE StreamInv'
<1> USE DEF streamVars, flowVars, peerVars, tlsVars
<1>0. LinkTyped /\ StreamTyped /\ TaskTyped /\ Placed(t) /\ Op(t) \in {"drain", "starttls"}
  BY DEF DrainWoken, StartTlsEnd, StreamInv
<1>1. /\ UNCHANGED <<setup, rbuf, rpaused, ending, feedGen, seenGen, waiter, wpaused, resume,
                     incoming,
                     peerVars>>
      /\ awake' = awake \ {t} /\ thrown' = thrown \ {t}
  BY DEF DrainWoken, StartTlsEnd
<1>2. drainers' = drainers \ {t}
  <2>1. CASE DrainWoken(t)
    BY <2>1 DEF DrainWoken
  <2>2. CASE StartTlsEnd(t)
    <3>1. Op(t) = "starttls" /\ UNCHANGED drainers
      BY <2>2 DEF StartTlsEnd
    <3> QED
      BY <1>0, <3>1 DEF Placed
  <2> QED
    BY <2>1, <2>2
<1>3. Goes(t, "op")
  BY DEF DrainWoken, StartTlsEnd, Goes
<1>4. /\ tpc' \in [Tasks -> ConnPCs] /\ at' \in [Tasks -> Nat] /\ tpc'[t] = "op"
      /\ \A u \in Tasks \ {t} : tpc'[u] = tpc[u] /\ at'[u] = at[u]
  BY <1>0, <1>3, GoesFacts DEF ConnPCs
<1>5. TaskTyped' /\ StreamMoves({t})
  BY <1>0, <1>1, <1>2, <1>4 DEF TaskTyped, StreamMoves
<1>6. StreamTyped' /\ Conserved' /\ (Something => Something')
  BY <1>0, <1>1 DEF StreamInv, StreamTyped, Conserved, Something
<1>7. waiter # t
  BY <1>0 DEF Placed, ReadingOp
<1>8. Placed(t)' /\ Served(t)'
  BY <1>1, <1>2, <1>4, <1>7 DEF Placed, Served, ReadingPCs
<1> QED
  BY <1>5, <1>6, <1>8, MovesStream

-----------------------------------------------------------------------------
\* What feeds the stream.

LEMMA FeedArith ==
  ASSUME NEW r \in Nat, NEW i \in Nat, NEW b \in Nat, NEW a \in Nat, NEW m \in Nat,
         NEW n \in Nat, NEW j \in Nat, NEW c \in Nat, r + i + b <= a, a <= m, n + j + c = i + b
  PROVE  r + n + j + c <= a /\ r + n \in 0..m /\ j \in 0..m /\ c \in 0..m
  OBVIOUS

\* feed_data moves what has come in to the buffer, and wakes the one who waits for it.
LEMMA FeedDataFacts ==
  ASSUME StreamInv, NEW n \in Nat, n > 0, FeedData(n), UNCHANGED <<setup, peerSent, peer>>,
         incoming' \in Nat, inbox' \in Nat, n + incoming' + inbox' = incoming + inbox
  PROVE  /\ StreamTyped' /\ Conserved' /\ Something' /\ waiter' = Nobody
         /\ awake' \subseteq Tasks /\ thrown' \subseteq awake'
         /\ \A t \in Tasks : t \in awake' => t \in awake \/ Roused(t)
<1>0. LinkTyped /\ StreamTyped /\ TaskTyped /\ Conserved
  BY DEF StreamInv
<1>1. /\ rbuf' = rbuf + n /\ feedGen' = feedGen + 1 /\ waiter' = Nobody /\ awake' = awake \cup Waiting
      /\ UNCHANGED <<thrown, ending, seenGen>>
      /\ rpaused' = (rpaused \/ (~rpaused /\ rbuf + n > 2 * setup.limit))
  BY DEF FeedData
<1>2. setup.inbound \in Nat
  BY <1>0, ConnAppFacts DEF LinkTyped
<1>3. rbuf \in Nat /\ incoming \in Nat /\ inbox \in Nat /\ peerSent \in Nat /\ peerSent <= setup.inbound
  BY <1>0, <1>2 DEF StreamTyped
<1>4. /\ rbuf + n + incoming' + inbox' <= peerSent /\ rbuf + n \in 0..setup.inbound
      /\ incoming' \in 0..setup.inbound /\ inbox' \in 0..setup.inbound
  <2>1. rbuf + incoming + inbox <= peerSent
    BY <1>0 DEF Conserved
  <2> HIDE DEF Conserved
  <2> DEFINE j == incoming'
             c == inbox'
  <2>2. j \in Nat /\ c \in Nat /\ n + j + c = incoming + inbox
    OBVIOUS
  <2> HIDE DEF j, c
  <2>3. rbuf + n + j + c <= peerSent /\ rbuf + n \in 0..setup.inbound /\ j \in 0..setup.inbound
        /\ c \in 0..setup.inbound
    BY <1>2, <1>3, <2>1, <2>2, FeedArith
  <2> QED
    BY <2>3 DEF j, c
<1>5. Conserved'
  BY <1>1, <1>4 DEF Conserved
<1>6. feedGen' \in Nat /\ seenGen' \in 0..feedGen'
  BY <1>0, <1>1 DEF StreamTyped
<1>7. StreamTyped'
  BY <1>0, <1>1, <1>4, <1>6 DEF StreamTyped
<1>8. Something'
  BY <1>1, <1>3 DEF Something
<1>9. \A t \in Waiting : t \in Tasks /\ Roused(t)
  BY <1>0, <1>8 DEF Waiting, StreamInv, StreamTyped, Placed, Roused
<1> QED
  BY <1>0, <1>1, <1>5, <1>7, <1>8, <1>9 DEF TaskTyped

\* Nobody moves but those who are woken.
LEMMA FeedDataStream ==
  ASSUME StreamInv, LinkTyped', NEW n \in Nat, n > 0, FeedData(n),
         UNCHANGED <<setup, peerSent, peer, flowVars, tpc, at>>, resume' \in BOOLEAN,
         incoming' \in Nat, inbox' \in Nat, n + incoming' + inbox' = incoming + inbox
  PROVE  StreamInv'
<1>1. /\ StreamTyped' /\ Conserved' /\ Something' /\ waiter' = Nobody
      /\ awake' \subseteq Tasks /\ thrown' \subseteq awake'
      /\ \A t \in Tasks : t \in awake' => t \in awake \/ Roused(t)
  BY FeedDataFacts
<1>2. TaskTyped' /\ StreamMoves({})
  BY <1>1 DEF StreamInv, TaskTyped, StreamMoves, flowVars
<1> QED
  BY <1>1, <1>2, MovesStream

\* feed_eof and set_exception, with those they wake besides.
LEMMA FeedEndStream ==
  ASSUME StreamInv, LinkTyped', NEW how \in {"eof", "exc"}, NEW others \in SUBSET Tasks,
         FeedEnd(how, others), \A t \in others : tpc[t] \in WaitPCs /\ (Op(t) = "starttls" \/ t \in drainers),
         UNCHANGED <<setup, drainers, incoming, peerVars, tpc, at>>, resume' \in BOOLEAN,
         wpaused' \in BOOLEAN
  PROVE  StreamInv'
<1>0. LinkTyped /\ StreamTyped /\ TaskTyped /\ Conserved
  BY DEF StreamInv
<1>1. /\ feedGen' = feedGen + 1 /\ waiter' = Nobody /\ awake' = awake \cup Waiting \cup others
      /\ UNCHANGED <<rbuf, rpaused, seenGen>> /\ ending' = (IF ending = "exc" THEN ending ELSE how)
      /\ thrown' = IF how = "exc" THEN thrown \cup (awake' \ awake) ELSE thrown
  BY DEF FeedEnd
<1>2. Something' /\ Conserved'
  BY <1>0, <1>1 DEF Something, Conserved, peerVars
<1>3. feedGen' \in Nat /\ seenGen' \in 0..feedGen'
  BY <1>0, <1>1 DEF StreamTyped
<1>4. StreamTyped'
  BY <1>0, <1>1, <1>3 DEF StreamTyped, peerVars
<1>5. \A t \in Waiting : t \in Tasks /\ Roused(t)
  BY <1>0, <1>2 DEF Waiting, StreamInv, StreamTyped, Placed, Roused
<1>6. \A t \in others : Roused(t)
  BY DEF Roused
<1>7. TaskTyped'
  BY <1>0, <1>1, <1>5 DEF TaskTyped
<1>8. StreamMoves({})
  BY <1>1, <1>5, <1>6 DEF StreamMoves
<1> QED
  BY <1>2, <1>4, <1>7, <1>8, MovesStream

LEMMA TlsWaitersPlace == \A t \in TlsWaiters : t \in Tasks /\ tpc[t] \in WaitPCs /\ Op(t) = "starttls"
  BY DEF TlsWaiters, WaitPCs

LEMMA DrainersPlace == StreamInv => drainers \subseteq Tasks /\ \A t \in drainers : tpc[t] \in WaitPCs
  BY DEF StreamInv, TaskTyped, Placed

LEMMA LostStream ==
  ASSUME StreamInv, LinkTyped', CallConnectionLost,
         UNCHANGED <<setup, drainers, incoming, resume, peerVars, tpc, at>>, wpaused' \in BOOLEAN
  PROVE  StreamInv'
<1> DEFINE how    == IF lostSoon = "exc" THEN "exc" ELSE "eof"
           others == (IF wpaused THEN drainers ELSE {}) \cup TlsWaiters
<1>1. how \in {"eof", "exc"} /\ FeedEnd(how, others)
  BY DEF CallConnectionLost
<1>2. /\ others \in SUBSET Tasks
      /\ \A t \in others : tpc[t] \in WaitPCs /\ (Op(t) = "starttls" \/ t \in drainers)
  BY TlsWaitersPlace, DrainersPlace
<1> HIDE DEF how, others
<1> QED
  BY <1>1, <1>2, TaskFlags, FeedEndStream

\* Nobody moves; only the flags of the two directions may change.
LEMMA StreamEased ==
  ASSUME StreamInv, LinkTyped', resume' \in BOOLEAN, wpaused' \in BOOLEAN,
         UNCHANGED <<setup, streamVars, drainers, incoming, peerVars, tpc, at, awake, thrown>>
  PROVE  StreamInv'
<1> USE DEF streamVars, peerVars
<1>1. StreamTyped' /\ Conserved' /\ (Something => Something')
  BY DEF StreamInv, StreamTyped, Conserved, Something
<1>2. TaskTyped' /\ StreamMoves({})
  BY DEF StreamInv, TaskTyped, StreamMoves
<1> QED
  BY <1>1, <1>2, MovesStream

\* A task, or the handshake, wakes those who wait for a drain or for the handshake, and may
\* throw at them.
LEMMA RouseStream ==
  ASSUME StreamInv, LinkTyped', NEW others \in SUBSET Tasks, awake' = awake \cup others,
         thrown' \subseteq thrown \cup others,
         \A t \in others : tpc[t] \in WaitPCs /\ (Op(t) = "starttls" \/ t \in drainers),
         UNCHANGED <<setup, streamVars, drainers, incoming, peerVars, tpc, at>>,
         resume' \in BOOLEAN, wpaused' \in BOOLEAN
  PROVE  StreamInv'
<1> USE DEF streamVars, peerVars
<1>1. StreamTyped' /\ Conserved' /\ (Something => Something')
  BY DEF StreamInv, StreamTyped, Conserved, Something
<1>2. TaskTyped'
  BY DEF StreamInv, TaskTyped
<1>3. StreamMoves({})
  BY DEF StreamMoves, Roused
<1> QED
  BY <1>1, <1>2, <1>3, MovesStream

LEMMA HandshakeFailsStream ==
  ASSUME StreamInv, LinkTyped', HandshakeFails,
         UNCHANGED <<setup, streamVars, drainers, wpaused, incoming, resume, peerVars, tpc, at>>
  PROVE  StreamInv'
<1>1. awake' = awake \cup TlsWaiters /\ thrown' \subseteq thrown \cup TlsWaiters
  BY DEF HandshakeFails
<1> QED
  BY <1>1, TaskFlags, TlsWaitersPlace, RouseStream

\* The close of a TLS connection hands over what it has, and goes on to write.
LEMMA CloseTlsStream ==
  ASSUME StreamInv, LinkTyped', NEW t \in Tasks, CloseTls(t) PROVE StreamInv'
<1> USE DEF streamVars, flowVars, peerVars
<1>0. LinkTyped /\ StreamTyped /\ TaskTyped /\ tpc[t] = "op"
  BY DEF StreamInv, CloseTls, Runs
<1>1. t \notin awake /\ t \notin drainers /\ waiter # t
  BY <1>0, RunningIsFree DEF WaitPCs
<1>2. UNCHANGED <<setup, peerVars, flowVars, resume>>
  BY DEF CloseTls
<1>3. PICK l \in {"op", "outgoing"} : Goes(t, l)
  BY DEF CloseTls, Goes
<1>4. l \in ConnPCs /\ l \notin ReadingPCs /\ l # "take" /\ l # "helper" /\ l \notin WaitPCs
  BY DEF ConnPCs, ReadingPCs, WaitPCs
<1>5. CASE UNCHANGED <<streamVars, incoming, awake, thrown>>
  BY <1>1, <1>2, <1>3, <1>4, <1>5, TaskFlags, AdvanceOnly
<1>6. CASE incoming > 0 /\ FeedData(incoming) /\ incoming' = 0
  <2>1. incoming \in Nat /\ inbox \in Nat /\ incoming + incoming' + inbox' = incoming + inbox
    <3>1. incoming \in Nat /\ inbox \in Nat
      BY <1>0, ConnAppFacts DEF LinkTyped, StreamTyped
    <3> QED
      BY <1>2, <1>6, <3>1
  <2>2. /\ StreamTyped' /\ Conserved' /\ Something' /\ waiter' = Nobody
        /\ awake' \subseteq Tasks /\ thrown' \subseteq awake'
        /\ \A u \in Tasks : u \in awake' => u \in awake \/ Roused(u)
    <3>1. incoming' \in Nat /\ inbox' \in Nat
      BY <1>2, <1>6, <2>1
    <3> QED
      BY <1>2, <1>6, <2>1, <3>1, FeedDataFacts
  <2>3. /\ tpc' \in [Tasks -> ConnPCs] /\ at' \in [Tasks -> Nat] /\ tpc'[t] = l
        /\ \A u \in Tasks \ {t} : tpc'[u] = tpc[u] /\ at'[u] = at[u]
    BY <1>0, <1>3, <1>4, GoesFacts
  <2>4. TaskTyped' /\ StreamMoves({t})
    BY <1>0, <1>2, <2>2, <2>3 DEF TaskTyped, StreamMoves
  <2>5. t \notin awake' /\ waiter' # t
    <3>1. ~Roused(t)
      BY <1>0 DEF Roused, WaitPCs
    <3> QED
      BY <1>1, <2>2, <3>1, ConnNoneAssumption DEF Senders
  <2>6. Placed(t)' /\ Served(t)'
    BY <1>1, <1>2, <1>4, <2>3, <2>5 DEF Placed, Served
  <2> QED
    BY <2>2, <2>4, <2>6, MovesStream
<1> QED
  BY <1>5, <1>6 DEF CloseTls

LEMMA TaskStream == ASSUME StreamInv, LinkTyped', NEW t \in Tasks, TaskStep(t) PROVE StreamInv'
  BY WritingStream, SuspendStream, LookingStream, WaitForDataStream, WaitWokenStream,
     ReadDeleteStream, DrainHelperStream, LeavesStream, CloseTlsStream
     DEF TaskStep

LEMMA ReadRunStream == ASSUME StreamInv, LinkTyped', NEW r \in Readers, ReadRun(r) PROVE StreamInv'
<1> USE DEF streamVars, flowVars, peerVars, taskVars
<1>0. LinkTyped /\ StreamTyped /\ TaskTyped
  BY DEF StreamInv
<1>1. UNCHANGED <<setup, flowVars, resume, peerSent, peer, tpc, at, held>>
  BY DEF ReadRun
<1>2. incoming \in Nat /\ inbox \in Nat
  BY <1>0, ConnAppFacts DEF LinkTyped, StreamTyped
<1>3. CASE UNCHANGED <<streamVars, incoming, inbox, awake, thrown>>
  BY <1>1, <1>3, StreamKept
<1>4. CASE inbox > 0 /\ inbox' = 0 /\ FeedData(incoming + inbox) /\ incoming' = 0
  <2>1. /\ incoming + inbox \in Nat /\ incoming + inbox > 0 /\ incoming' \in Nat /\ inbox' \in Nat
        /\ (incoming + inbox) + incoming' + inbox' = incoming + inbox
    BY <1>2, <1>4
  <2> QED
    BY <1>1, <1>4, <2>1, TaskFlags, FeedDataStream
<1>5. CASE inbox > 0 /\ inbox' = 0 /\ incoming' = incoming + inbox /\ UNCHANGED <<streamVars,
                                                                                  awake, thrown>>
  <2>1. TaskTyped' /\ StreamMoves({}) /\ (Something => Something')
    BY <1>0, <1>1, <1>5 DEF TaskTyped, StreamMoves, Something
  <2>2. setup.inbound \in Nat
    BY <1>0, ConnAppFacts DEF LinkTyped
  <2>3. rbuf \in Nat /\ peerSent \in Nat /\ peerSent <= setup.inbound
    BY <1>0, <2>2 DEF StreamTyped
  <2>4. /\ rbuf + 0 + (incoming + inbox) + 0 <= peerSent /\ incoming + inbox \in 0..setup.inbound
        /\ 0 \in 0..setup.inbound
    <3>1. rbuf + incoming + inbox <= peerSent
      BY DEF StreamInv, Conserved
    <3> QED
      BY <1>2, <2>2, <2>3, <3>1
  <2>5. StreamTyped'
    BY <1>0, <1>1, <1>5, <2>4 DEF StreamTyped
  <2>6. Conserved'
    <3>1. rbuf + (incoming + inbox) + 0 <= peerSent
      BY <1>2, <2>3, <2>4
    <3> QED
      BY <1>1, <1>5, <3>1 DEF Conserved
  <2> QED
    BY <2>1, <2>5, <2>6, MovesStream
<1>6. CASE FeedEnd("eof", {}) /\ UNCHANGED <<incoming, inbox>>
  BY <1>1, <1>6, TaskFlags, FeedEndStream
<1>7. \/ UNCHANGED <<streamVars, incoming, inbox, awake, thrown>>
      \/ inbox > 0 /\ inbox' = 0 /\ FeedData(incoming + inbox) /\ incoming' = 0
      \/ inbox > 0 /\ inbox' = 0 /\ incoming' = incoming + inbox /\ UNCHANGED <<streamVars, awake,
                                                                                thrown>>
      \/ FeedEnd("eof", {}) /\ UNCHANGED <<incoming, inbox>>
      \/ HandshakeFails /\ UNCHANGED <<streamVars, incoming, inbox>>
  <2> HIDE DEF streamVars
  <2> QED
    BY DEF ReadRun
<1>8. CASE HandshakeFails /\ UNCHANGED <<streamVars, incoming, inbox>>
  BY <1>1, <1>8, HandshakeFailsStream
<1> QED
  BY <1>3, <1>4, <1>5, <1>6, <1>7, <1>8

LEMMA DoReadStream == StreamInv /\ LinkTyped' /\ DoRead => StreamInv'
<1> SUFFICES ASSUME StreamInv, LinkTyped', DoRead PROVE StreamInv'
  OBVIOUS
<1> USE DEF streamVars, flowVars, peerVars
<1>1. UNCHANGED <<setup, flowVars, peerVars, tpc, at>> /\ resume' = FALSE
  BY DEF DoRead
<1>2. incoming \in Nat /\ inbox \in Nat
  BY ConnAppFacts DEF StreamInv, LinkTyped, StreamTyped
<1>3. CASE UNCHANGED <<streamVars, incoming, awake, thrown>>
  BY <1>1, <1>3, TaskFlags, StreamEased
<1>4. CASE incoming > 0 /\ FeedData(incoming) /\ incoming' = 0
  <2>1. incoming' \in Nat /\ inbox' \in Nat /\ incoming + incoming' + inbox' = incoming + inbox
    BY <1>1, <1>2, <1>4
  <2> QED
    BY <1>1, <1>2, <1>4, <2>1, FeedDataStream
<1> QED
  BY <1>3, <1>4 DEF DoRead

LEMMA WritePutStream == StreamInv /\ LinkTyped' /\ WritePut => StreamInv'
<1> SUFFICES ASSUME StreamInv, LinkTyped', WritePut PROVE StreamInv'
  OBVIOUS
<1> USE DEF tlsVars
<1>1. UNCHANGED <<setup, drainers, incoming, resume, peerVars, tpc, at>> /\ wpaused' \in BOOLEAN
  BY TaskFlags DEF WritePut
<1>2. CASE buffer' = <<>> /\ closing
  <2>1. CallConnectionLost
    BY <1>2 DEF WritePut
  <2> QED
    BY <1>1, <2>1, LostStream
<1>3. CASE ~(buffer' = <<>> /\ closing)
  <2>1. UNCHANGED <<streamVars, thrown>>
    BY <1>3 DEF WritePut
  <2>2. PICK others \in {drainers, {}} : awake' = awake \cup others
    BY <1>3 DEF WritePut
  <2>3. others \in SUBSET Tasks /\ \A t \in others : tpc[t] \in WaitPCs /\ t \in drainers
    BY DrainersPlace
  <2> QED
    BY <1>1, <2>1, <2>2, <2>3, TaskFlags, RouseStream
<1> QED
  BY <1>2, <1>3

LEMMA StreamStep == StreamInv /\ LinkInv /\ [ConnNext]_connectionVars => StreamInv'
<1> SUFFICES ASSUME StreamInv, LinkInv, [ConnNext]_connectionVars PROVE StreamInv'
  OBVIOUS
<1>0. LinkTyped'
  BY LinkStep DEF LinkInv
<1> USE DEF tlsVars
<1>1. ASSUME NEW t \in Tasks, TaskStep(t) PROVE StreamInv'
  BY <1>0, <1>1, TaskStream
<1>2. ASSUME NEW r \in Readers, ReadRun(r) PROVE StreamInv'
  BY <1>0, <1>2, ReadRunStream
<1>3. CASE WritePut \/ DoRead
  BY <1>0, <1>3, WritePutStream, DoReadStream
<1>4. CASE Lost
  BY <1>0, <1>4, TaskFlags, LostStream DEF Lost, flowVars
<1>5. CASE HandshakeComplete
  <2>1. /\ UNCHANGED <<setup, streamVars, drainers, wpaused, incoming, peerVars, tpc, at, thrown>>
        /\ awake' = awake \cup TlsWaiters /\ resume' \in BOOLEAN
    BY <1>5 DEF HandshakeComplete, flowVars
  <2> QED
    BY <1>0, <2>1, TaskFlags, TlsWaitersPlace, RouseStream
<1>6. CASE ShutdownComplete
  <2>1. FeedEnd("eof", {}) /\ UNCHANGED <<setup, drainers, wpaused, incoming, peerVars, tpc, at,
                                          resume>>
    BY <1>6 DEF ShutdownComplete, flowVars
  <2> QED
    BY <1>0, <2>1, TaskFlags, FeedEndStream
<1>7. CASE PeerSends \/ PeerEnds
  <2>1. /\ UNCHANGED <<setup, rbuf, rpaused, ending, feedGen, seenGen, waiter, flowVars, incoming,
                       resume,
                       tpc, at, awake, thrown>>
        /\ peer' \in {"up", "eof", "reset"}
    <3>1. setup.cut \subseteq {"eof", "reset"}
      BY ConnAppsAssumption DEF LinkInv, LinkTyped
    <3> QED
      BY <1>7, <3>1 DEF PeerSends, PeerEnds, StreamInv, StreamTyped, streamVars, taskVars
  <2>2. TaskTyped' /\ StreamMoves({}) /\ (Something => Something')
    BY <2>1 DEF StreamInv, TaskTyped, StreamMoves, Something, flowVars
  <2>3. setup.inbound \in Nat
    BY ConnAppFacts DEF LinkInv, LinkTyped
  <2>4. rbuf \in Nat /\ peerSent \in Nat /\ inbox \in Nat /\ incoming \in Nat
    BY <2>3 DEF StreamInv, StreamTyped
  <2>5. /\ inbox' \in 0..setup.inbound /\ peerSent' \in 0..setup.inbound
        /\ rbuf + incoming + inbox' <= peerSent'
    <3>1. rbuf + incoming + inbox <= peerSent /\ inbox \in 0..setup.inbound /\ peerSent \in 0..setup.inbound
      BY DEF StreamInv, StreamTyped, Conserved
    <3>2. CASE UNCHANGED <<inbox, peerSent>>
      BY <3>1, <3>2
    <3>3. CASE peerSent < setup.inbound /\ peerSent' = peerSent + 1 /\ inbox' = inbox + 1
      BY <2>3, <2>4, <3>1, <3>3
    <3> QED
      BY <1>7, <3>2, <3>3 DEF PeerSends, PeerEnds
  <2>6. StreamTyped' /\ Conserved'
    BY <2>1, <2>5 DEF StreamInv, StreamTyped, Conserved
  <2> QED
    BY <1>0, <2>2, <2>6, MovesStream
<1>8. CASE SslWrite
  <2>1. UNCHANGED <<setup, streamVars, drainers, incoming, resume, peerVars, tpc, at, awake,
                    thrown>>
    BY <1>8 DEF SslWrite, taskVars
  <2>2. wpaused' \in BOOLEAN
    BY <1>8, TaskFlags DEF SslWrite, RawWrite
  <2> QED
    BY <1>0, <2>1, <2>2, TaskFlags, StreamEased
<1>9. CASE BeginResume
  <2>1. UNCHANGED <<setup, streamVars, flowVars, incoming, peerVars, tpc, at, awake, thrown>>
    BY <1>9 DEF BeginResume, taskVars
  <2>2. resume' \in BOOLEAN
    BY <1>9, TaskFlags DEF BeginResume, ResumeReading, ResumeSsl
  <2> QED
    BY <1>0, <2>1, <2>2, TaskFlags, StreamEased DEF flowVars
<1>10. CASE UNCHANGED <<setup, streamVars, flowVars, incoming, resume, peerVars, taskVars>>
  BY <1>0, <1>10, StreamKept
<1>11. ASSUME NEW r \in Readers, ReadCheck(r) PROVE StreamInv'
  BY <1>10, <1>11 DEF ReadCheck
<1>12. CASE WriteReady \/ Startup \/ Begin \/ CloseUnwrapped \/ SslTimeout \/ DeferExpires
  BY <1>10, <1>12 DEF WriteReady, Startup, Begin, CloseUnwrapped, SslTimeout, HandshakeTimeout,
                      ShutdownTimeout, DeferExpires
<1>14. CASE HandshakeError
  BY <1>0, <1>14, HandshakeFailsStream DEF HandshakeError, flowVars
<1>13. CASE Accept \/ GiveUp \/ ServerStep \/ UNCHANGED connectionVars
  BY <1>10, <1>13 DEF Accept, GiveUp, ServerStep, connectionVars
<1> QED
  BY <1>1, <1>2, <1>3, <1>4, <1>5, <1>6, <1>7, <1>8, <1>9, <1>11, <1>12, <1>13, <1>14
     DEF ConnNext, ReadStep, WriteStep, HandleStep

LEMMA StreamInit == ConnInit => StreamInv
<1> SUFFICES ASSUME ConnInit PROVE StreamInv
  OBVIOUS
<1>1. LinkTyped
  BY LinkInit DEF LinkInv
<1>2. setup.inbound \in Nat
  BY <1>1, ConnAppFacts DEF LinkTyped
<1>3. StreamTyped /\ Conserved
  <2>1. /\ rbuf = 0 /\ incoming = 0 /\ inbox = 0 /\ peerSent = 0 /\ feedGen = 0 /\ seenGen = 0
        /\ rpaused = FALSE /\ ending = "no" /\ waiter = Nobody /\ peer = "up"
    BY DEF ConnInit, ReaderInit, SslInit
  <2>2. 0 \in 0..setup.inbound /\ 0 \in 0..0 /\ 0 + 0 + 0 <= 0
    BY <1>2
  <2>3. StreamTyped
    BY <2>1, <2>2 DEF StreamTyped
  <2>4. Conserved
    BY <2>1, <2>2 DEF Conserved
  <2> QED
    BY <2>3, <2>4
<1>4. /\ tpc = [t \in Tasks |-> "op"] /\ at = [t \in Tasks |-> 1]
      /\ awake = {} /\ thrown = {} /\ drainers = {} /\ wpaused = FALSE /\ resume = FALSE /\ waiter = Nobody
  BY DEF ConnInit, ProtocolInit, SslInit, ReaderInit
<1>5. TaskTyped
  BY <1>4 DEF TaskTyped, ConnPCs
<1>6. \A t \in Tasks : Placed(t) /\ Served(t)
  BY <1>4, ConnNoneAssumption DEF Placed, Served, ReadingPCs, Senders
<1> QED
  BY <1>1, <1>3, <1>5, <1>6 DEF StreamInv

LEMMA StreamHolds == ConnSpec => []StreamInv
  BY StreamInit, StreamStep, LinkHolds, PTL DEF ConnSpec

\* With one task that reads, read returns nothing only at the end of the stream: a task comes
\* back from _wait_for_data to bytes, or to an end; for every script of reads, writes, drains
\* and closes, of any number of tasks, with and without TLS (read, _wait_for_data, feed_data).
THEOREM ReadsAreNotEmpty == ConnSpec => [](SoleReader => NoEmptyRead)
<1>1. StreamInv => (SoleReader => NoEmptyRead)
  BY DEF StreamInv, Served, Something, NoEmptyRead
<1> QED
  BY <1>1, StreamHolds, PTL

-----------------------------------------------------------------------------
\* What is written.

LEMMA PartsTyped ==
  ASSUME NEW s \in Seq(Nat), NEW k \in 0..Len(s)
  PROVE  /\ SubSeq(s, 1, k) \in Seq(Nat) /\ Len(SubSeq(s, 1, k)) = k
         /\ \A i \in 1..k : SubSeq(s, 1, k)[i] = s[i]
         /\ Left(s, k) \in Seq(Nat) /\ Len(Left(s, k)) = Len(s) - k
         /\ \A i \in 1..(Len(s) - k) : Left(s, k)[i] = s[k + i]
<1>0. k \in Int /\ k + 1 \in Int /\ Len(s) \in Int /\ k <= Len(s) /\ 0 <= k
  OBVIOUS
<1>1. /\ SubSeq(s, 1, k) \in Seq(Nat)
      /\ Len(SubSeq(s, 1, k)) = IF 1 <= k THEN k - 1 + 1 ELSE 0
      /\ \A i \in 1..(k - 1 + 1) : SubSeq(s, 1, k)[i] = s[1 + i - 1]
  <2>1. \A i \in 1..k : s[i] \in Nat
    OBVIOUS
  <2> QED
    BY <1>0, <2>1, SubSeqProperties
<1>2. /\ SubSeq(s, k + 1, Len(s)) \in Seq(Nat)
      /\ Len(SubSeq(s, k + 1, Len(s))) = IF k + 1 <= Len(s) THEN Len(s) - (k + 1) + 1 ELSE 0
      /\ \A i \in 1..(Len(s) - (k + 1) + 1) : SubSeq(s, k + 1, Len(s))[i] = s[k + 1 + i - 1]
  <2>1. \A i \in (k + 1)..Len(s) : s[i] \in Nat
    OBVIOUS
  <2> QED
    BY <1>0, <2>1, SubSeqProperties
<1>3. /\ Len(SubSeq(s, 1, k)) = k
      /\ \A i \in 1..k : SubSeq(s, 1, k)[i] = s[i]
  BY <1>0, <1>1
<1>4. /\ Len(Left(s, k)) = Len(s) - k
      /\ \A i \in 1..(Len(s) - k) : Left(s, k)[i] = s[k + i]
  BY <1>0, <1>2 DEF Left
<1> QED
  BY <1>1, <1>2, <1>3, <1>4 DEF Left

outState == <<buffer, wire, eof, numbered, slice, bio, sending, ssl, tls>>

LEMMA OutKept == OutTyped /\ UNCHANGED outState => OutTyped'
  BY DEF OutTyped, outState

LEMMA RawWriteOut ==
  ASSUME LinkTyped, OutTyped, NEW s \in Senders, RawWrite(s)
  PROVE  buffer' \in Seq(Seq(Nat)) /\ wire' \in Seq(Nat) /\ slice' \in [Senders -> Seq(Nat)]
<1>1. slice' \in [Senders -> Seq(Nat)]
  <2>1. slice' = [slice EXCEPT ![s] = <<>>]
    BY DEF RawWrite
  <2> QED
    BY <2>1 DEF OutTyped
<1>2. CASE UNCHANGED <<buffer, wire>>
  BY <1>1, <1>2 DEF OutTyped
<1>3. CASE buffer' = <<>> /\ UNCHANGED wire
  BY <1>1, <1>3 DEF OutTyped
<1>4. CASE buffer' = Append(buffer, slice[s]) /\ UNCHANGED wire
  BY <1>1, <1>4 DEF OutTyped
<1>5. ASSUME NEW k \in 0..Len(slice[s]), Send(slice[s], k),
             buffer' = IF k = Len(slice[s]) THEN <<>> ELSE <<Left(slice[s], k)>>
      PROVE  buffer' \in Seq(Seq(Nat)) /\ wire' \in Seq(Nat)
  <2>1. slice[s] \in Seq(Nat)
    BY DEF OutTyped
  <2>2. SubSeq(slice[s], 1, k) \in Seq(Nat) /\ Left(slice[s], k) \in Seq(Nat)
    BY <2>1, PartsTyped
  <2>3. wire' \in Seq(Nat)
    BY <1>5, <2>2 DEF Send, OutTyped
  <2>4. buffer' \in Seq(Seq(Nat))
    BY <1>5, <2>2
  <2> QED
    BY <2>3, <2>4
<1>6. CASE connLost \/ ~sockOpen
  BY <1>2, <1>6 DEF RawWrite
<1>7. CASE ~(connLost \/ ~sockOpen) /\ peer = "reset"
  BY <1>2, <1>3, <1>7 DEF RawWrite, ForceClose
<1>8. CASE ~(connLost \/ ~sockOpen) /\ peer # "reset"
  <2>1. CASE buffer = <<>>
    BY <1>1, <1>5, <1>8, <2>1 DEF RawWrite
  <2>2. CASE buffer # <<>>
    BY <1>4, <1>8, <2>2 DEF RawWrite
  <2> QED
    BY <2>1, <2>2
<1> QED
  BY <1>6, <1>7, <1>8

LEMMA ForceCloseOut == OutTyped /\ Forced => buffer' \in Seq(Seq(Nat))
<1> SUFFICES ASSUME OutTyped, Forced PROVE buffer' \in Seq(Seq(Nat))
  OBVIOUS
<1>1. buffer' = buffer \/ buffer' = <<>>
  BY DEF ForceClose
<1>2. <<>> \in Seq(Seq(Nat))
  OBVIOUS
<1> QED
  BY <1>1, <1>2 DEF OutTyped

LEMMA UnitsTyped ==
  ASSUME OutTyped
  PROVE  /\ numbered + 1 \in Nat /\ numbered + 2 \in Nat
         /\ <<numbered + 1>> \in Seq(Nat) /\ <<numbered + 1, numbered + 2>> \in Seq(Nat)
         /\ bio \o <<numbered + 1, numbered + 2>> \in Seq(Nat)
         /\ bio \o <<numbered + 1>> \in Seq(Nat)
         /\ Append(bio, numbered + 1) \in Seq(Nat)
         /\ Append(wire, numbered + 1) \in Seq(Nat)
         /\ Append(wire, eof) \in Seq(Nat)
<1>1. numbered + 1 \in Nat /\ numbered + 2 \in Nat
  BY DEF OutTyped
<1>2. bio \in Seq(Nat) /\ wire \in Seq(Nat) /\ eof \in Nat
  BY DEF OutTyped
<1>3. <<numbered + 1>> \in Seq(Nat) /\ <<numbered + 1, numbered + 2>> \in Seq(Nat)
  BY <1>1
<1>4. bio \o <<numbered + 1, numbered + 2>> \in Seq(Nat) /\ bio \o <<numbered + 1>> \in Seq(Nat)
  BY <1>2, <1>3
<1>5. /\ Append(bio, numbered + 1) \in Seq(Nat) /\ Append(wire, numbered + 1) \in Seq(Nat)
      /\ Append(wire, eof) \in Seq(Nat)
  BY <1>1, <1>2
<1> QED
  BY <1>1, <1>3, <1>4, <1>5

LEMMA SliceTyped ==
  ASSUME OutTyped, NEW s \in Senders, NEW q \in Seq(Nat)
  PROVE  [slice EXCEPT ![s] = q] \in [Senders -> Seq(Nat)]
  BY DEF OutTyped

LEMMA TaskOut ==
  ASSUME LinkTyped, OutTyped, NEW t \in Tasks, TaskStep(t) PROVE OutTyped'
<1>0. t \in Senders
  BY DEF Senders
<1>1. CASE Write(t) \/ Suspend(t) \/ Requeue(t) \/ Drain(t) \/ DrainHelper(t) \/ DrainWoken(t)
           \/ ReadStart(t)
  BY <1>1, OutKept
     DEF outState, Write, Suspend, Requeue, Drain, DrainHelper, DrainWoken, ReadStart, outVars,
         tlsVars
<1>2. CASE ReadLook(t) \/ WaitPaused(t) \/ WaitForData(t) \/ WaitWoken(t) \/ ReadCopy(t)
         \/ ReadDelete(t)
           \/ MaybeResume(t) \/ Resume(t) \/ CloseTransport(t)
  BY <1>2, OutKept
     DEF outState, ReadLook, WaitPaused, WaitForData, WaitWoken, ReadCopy,
         ReadDelete, MaybeResume, Resume,
         CloseTransport, outVars, tlsVars
<1>3. CASE WriteEnter(t)
  <2>1. /\ UNCHANGED <<buffer, wire, eof, sending, ssl, tls>>
        /\ \/ UNCHANGED <<numbered, slice, bio>>
           \/ /\ numbered' = numbered + 2
              /\ \/ slice' = [slice EXCEPT ![t] = <<numbered + 1, numbered + 2>>] /\ UNCHANGED bio
                 \/ bio' = bio \o <<numbered + 1, numbered + 2>> /\ UNCHANGED slice
    BY <1>3 DEF WriteEnter
  <2>2. numbered' \in Nat /\ bio' \in Seq(Nat)
    BY <2>1, UnitsTyped DEF OutTyped
  <2>3. slice' \in [Senders -> Seq(Nat)]
    BY <1>0, <2>1, UnitsTyped, SliceTyped DEF OutTyped
  <2> QED
    BY <2>1, <2>2, <2>3 DEF OutTyped
<1>4. CASE WriteOutgoing(t)
  <2>1. /\ UNCHANGED <<buffer, wire, eof, numbered, sending, ssl, tls>>
        /\ slice' = [slice EXCEPT ![t] = bio] /\ bio' = <<>>
    BY <1>4 DEF WriteOutgoing
  <2>2. slice' \in [Senders -> Seq(Nat)]
    BY <1>0, <2>1, SliceTyped DEF OutTyped
  <2>3. bio' \in Seq(Nat)
    BY <2>1
  <2> QED
    BY <2>1, <2>2, <2>3 DEF OutTyped
<1>5. CASE WriteRaw(t)
  <2>1. RawWrite(t) /\ UNCHANGED <<eof, numbered, bio, sending, ssl, tls>>
    BY <1>5 DEF WriteRaw, tlsVars
  <2>2. buffer' \in Seq(Seq(Nat)) /\ wire' \in Seq(Nat) /\ slice' \in [Senders -> Seq(Nat)]
    BY <1>0, <2>1, RawWriteOut
  <2> QED
    BY <2>1, <2>2 DEF OutTyped
<1>6. CASE WriteEof(t)
  <2>1. /\ UNCHANGED <<buffer, slice, bio, sending, ssl, tls>>
        /\ \/ UNCHANGED <<eof, numbered, wire>>
           \/ /\ eof' = numbered + 1 /\ numbered' = numbered + 1
              /\ UNCHANGED wire \/ wire' = Append(wire, numbered + 1)
    BY <1>6 DEF WriteEof, tlsVars
  <2>2. eof' \in Nat /\ numbered' \in Nat /\ wire' \in Seq(Nat)
    BY <2>1, UnitsTyped DEF OutTyped
  <2> QED
    BY <2>1, <2>2 DEF OutTyped
<1>7. CASE AbortTransport(t)
  <2>1. /\ UNCHANGED <<wire, eof, numbered, slice, bio, sending, ssl>>
        /\ Forced /\ tls' \in {"failed", tls}
    BY <1>7 DEF AbortTransport
  <2>2. buffer' \in Seq(Seq(Nat))
    BY <2>1, ForceCloseOut
  <2> QED
    BY <2>1, <2>2 DEF OutTyped
<1>8. CASE CloseTls(t)
  <2>1. /\ UNCHANGED <<buffer, wire, eof, slice, sending, ssl>>
        /\ \/ UNCHANGED <<numbered, bio, tls>>
           \/ numbered' = numbered + 1 /\ bio' = Append(bio, numbered + 1) /\ tls' = "shutdown"
    BY <1>8 DEF CloseTls
  <2>2. numbered' \in Nat /\ bio' \in Seq(Nat)
    BY <2>1, UnitsTyped DEF OutTyped
  <2> QED
    BY <2>1, <2>2 DEF OutTyped
<1>9. CASE StartTls(t) \/ StartTlsEnd(t)
  <2>1. UNCHANGED <<buffer, wire, eof, numbered, slice, bio, sending, ssl>>
        /\ tls' \in {"set", "none", tls}
    BY <1>9 DEF StartTls, SetProtocol, StartTlsEnd, outVars
  <2> QED
    BY <2>1 DEF OutTyped
<1> QED
  BY <1>1, <1>2, <1>3, <1>4, <1>5, <1>6, <1>7, <1>8, <1>9 DEF TaskStep

LEMMA ReadyOut == LinkInv /\ OutTyped /\ WriteReady => OutTyped'
<1> SUFFICES ASSUME LinkInv, OutTyped, WriteReady PROVE OutTyped'
  OBVIOUS
<1>1. UNCHANGED <<eof, numbered, bio, tls>>
  BY DEF WriteReady, tlsVars
<1>2. CASE peer = "reset"
  <2>1. UNCHANGED <<wire, slice, sending, ssl>> /\ Forced
    BY <1>2 DEF WriteReady
  <2>2. buffer' \in Seq(Seq(Nat))
    BY <2>1, ForceCloseOut
  <2> QED
    BY <1>1, <2>1, <2>2 DEF OutTyped
<1>3. CASE peer # "reset"
  <2>1. WriteSend
    BY <1>3 DEF WriteReady
  <2>2. buffer \in Seq(Seq(Nat)) /\ buffer # <<>>
    BY DEF WriteReady, LinkInv, LinkSafe, OutTyped
  <2>3. Head(buffer) \in Seq(Nat) /\ Tail(buffer) \in Seq(Seq(Nat))
    BY <2>2
  <2>4. PICK k \in 1..Len(Head(buffer)) :
          /\ wire' = wire \o SubSeq(Head(buffer), 1, k)
          /\ slice' = [slice EXCEPT !["wready"] = Left(Head(buffer), k)]
    BY <2>1 DEF WriteSend, Send
  <2>5. k \in 0..Len(Head(buffer))
    BY <2>3
  <2>6. SubSeq(Head(buffer), 1, k) \in Seq(Nat) /\ Left(Head(buffer), k) \in Seq(Nat)
    BY <2>3, <2>5, PartsTyped
  <2>7. wire' \in Seq(Nat)
    BY <2>4, <2>6 DEF OutTyped
  <2>8. slice' \in [Senders -> Seq(Nat)]
    BY <2>4, <2>6, SliceTyped DEF Senders
  <2>9. sending' = TRUE /\ buffer' = Tail(buffer) /\ ssl' = ssl
    BY <2>1 DEF WriteSend
  <2> QED
    BY <1>1, <2>3, <2>7, <2>8, <2>9 DEF OutTyped
<1> QED
  BY <1>2, <1>3

LEMMA PutOut == OutTyped /\ WritePut => OutTyped'
<1> SUFFICES ASSUME OutTyped, WritePut PROVE OutTyped'
  OBVIOUS
<1>1. /\ UNCHANGED <<eof, numbered, bio, tls, ssl>> /\ sending' = FALSE
      /\ slice' = [slice EXCEPT !["wready"] = <<>>]
      /\ buffer' = buffer \/ buffer' = <<slice["wready"]>> \o buffer
      /\ wire' = wire \/ wire' = Append(wire, eof)
  BY DEF WritePut, tlsVars
<1>2. slice' \in [Senders -> Seq(Nat)]
  <2>1. "wready" \in Senders /\ <<>> \in Seq(Nat)
    BY DEF Senders
  <2> QED
    BY <1>1, <2>1, SliceTyped
<1>3. slice["wready"] \in Seq(Nat)
  BY DEF OutTyped, Senders
<1>4. <<slice["wready"]>> \in Seq(Seq(Nat))
  BY <1>3
<1>5. buffer' \in Seq(Seq(Nat))
  <2>1. buffer \in Seq(Seq(Nat))
    BY DEF OutTyped
  <2>2. <<slice["wready"]>> \o buffer \in Seq(Seq(Nat))
    BY <1>4, <2>1, ConcatProperties
  <2> QED
    BY <1>1, <2>1, <2>2
<1>6. wire' \in Seq(Nat)
  BY <1>1, UnitsTyped DEF OutTyped
<1> QED
  BY <1>1, <1>2, <1>5, <1>6 DEF OutTyped

LEMMA HandleOut == LinkInv /\ OutTyped /\ HandleStep => OutTyped'
<1> SUFFICES ASSUME LinkInv, OutTyped, HandleStep PROVE OutTyped'
  OBVIOUS
<1>0. "ssl" \in Senders /\ LinkTyped
  BY DEF Senders, LinkInv
<1>1. CASE Startup \/ CloseUnwrapped
  <2>1. UNCHANGED <<buffer, wire, eof, numbered, slice, bio, sending, ssl>>
        /\ tls' \in {"begun", "closed", tls}
    BY <1>1 DEF Startup, MakeSslTransport, CloseUnwrapped, outVars
  <2> QED
    BY <2>1 DEF OutTyped
<1>2. CASE Lost
  BY <1>2, OutKept DEF outState, Lost, outVars, tlsVars
<1>3. CASE Begin
  <2>1. /\ UNCHANGED <<buffer, wire, eof, bio, sending>> /\ tls' = "begun" /\ ssl' = "begin"
        /\ numbered' = numbered + 1 /\ slice' = [slice EXCEPT !["ssl"] = <<numbered + 1>>]
    BY <1>3 DEF Begin
  <2>2. slice' \in [Senders -> Seq(Nat)]
    BY <1>0, <2>1, UnitsTyped, SliceTyped
  <2>3. numbered' \in Nat
    BY <2>1, UnitsTyped
  <2> QED
    BY <2>1, <2>2, <2>3 DEF OutTyped
<1>4. CASE SslWrite
  <2>1. /\ RawWrite("ssl") /\ UNCHANGED <<eof, numbered, bio, sending, tls>>
        /\ ssl' \in {"idle", "resume"}
    BY <1>4 DEF SslWrite, tlsVars
  <2>2. buffer' \in Seq(Seq(Nat)) /\ wire' \in Seq(Nat) /\ slice' \in [Senders -> Seq(Nat)]
    BY <1>0, <2>1, RawWriteOut
  <2> QED
    BY <2>1, <2>2 DEF OutTyped
<1>5. CASE BeginResume
  <2>1. UNCHANGED <<buffer, wire, eof, numbered, slice, bio, sending, tls>> /\ ssl' = "idle"
    BY <1>5 DEF BeginResume
  <2> QED
    BY <2>1 DEF OutTyped
<1>6. CASE DoRead
  <2>1. /\ UNCHANGED <<buffer, wire, eof, sending, tls>>
        /\ \/ /\ ssl' = "read" /\ numbered' = numbered + 1 /\ bio' = <<>>
              /\ slice' = [slice EXCEPT !["ssl"] = bio \o <<numbered + 1>>]
           \/ UNCHANGED <<ssl, numbered, slice, bio>>
    BY <1>6 DEF DoRead
  <2>2. slice' \in [Senders -> Seq(Nat)]
    BY <1>0, <2>1, UnitsTyped, SliceTyped DEF OutTyped
  <2>3. numbered' \in Nat /\ ssl' \in {"read", ssl}
    BY <2>1, UnitsTyped DEF OutTyped
  <2>4. bio' \in Seq(Nat)
    <3>1. <<>> \in Seq(Nat)
      OBVIOUS
    <3> QED
      BY <2>1, <3>1 DEF OutTyped
  <2> QED
    BY <2>1, <2>2, <2>3, <2>4 DEF OutTyped
<1> QED
  BY <1>1, <1>2, <1>3, <1>4, <1>5, <1>6 DEF HandleStep

LEMMA OutStep == LinkInv /\ OutTyped /\ [ConnNext]_connectionVars => OutTyped'
<1> SUFFICES ASSUME LinkInv, OutTyped, [ConnNext]_connectionVars PROVE OutTyped'
  OBVIOUS
<1>0. LinkTyped
  BY DEF LinkInv
<1>1. ASSUME NEW t \in Tasks, TaskStep(t) PROVE OutTyped'
  BY <1>0, <1>1, TaskOut
<1>2. ASSUME NEW r \in Readers, ReadStep(r) PROVE OutTyped'
  <2>1. /\ UNCHANGED <<wire, eof, numbered, slice, bio, sending, ssl>>
        /\ tls' \in {tls, "failed"} /\ (buffer' = buffer \/ Forced)
    BY <1>2 DEF ReadStep, ReadCheck, ReadRun, HandshakeFails, outVars, tlsVars
  <2>2. buffer' \in Seq(Seq(Nat))
    BY <2>1, ForceCloseOut DEF OutTyped
  <2> QED
    BY <2>1, <2>2 DEF OutTyped
<1>3. CASE WriteStep
  BY <1>3, ReadyOut, PutOut DEF WriteStep
<1>4. CASE HandleStep
  BY <1>4, HandleOut
<1>5. CASE HandshakeComplete \/ ShutdownComplete
  <2>1. UNCHANGED <<buffer, wire, eof, numbered, slice, bio, sending, ssl>>
        /\ tls' \in {"done", "unwrapped"}
    BY <1>5 DEF HandshakeComplete, ShutdownComplete, outVars
  <2> QED
    BY <2>1 DEF OutTyped
<1>6. CASE SslTimeout \/ HandshakeError
  <2>1. UNCHANGED <<wire, eof, numbered, slice, bio, sending, ssl>>
        /\ tls' = "failed" /\ Forced
    BY <1>6 DEF SslTimeout, HandshakeError,
     HandshakeFails, HandshakeTimeout, ShutdownTimeout
  <2>2. buffer' \in Seq(Seq(Nat))
    BY <2>1, ForceCloseOut
  <2> QED
    BY <2>1, <2>2 DEF OutTyped
<1>7. CASE DeferExpires \/ Accept \/ GiveUp \/ PeerSends \/ PeerEnds \/ ServerStep
  BY <1>7, OutKept DEF outState, DeferExpires, Accept, GiveUp, PeerSends, PeerEnds, ServerStep,
                       outVars, tlsVars
<1>8. CASE UNCHANGED connectionVars
  BY <1>8, OutKept DEF outState, connectionVars, outVars, tlsVars
<1> QED
  BY <1>1, <1>2, <1>3, <1>4, <1>5, <1>6, <1>7, <1>8 DEF ConnNext

LEMMA OutInit == ConnInit => OutTyped
<1> SUFFICES ASSUME ConnInit PROVE OutTyped
  OBVIOUS
<1>1. /\ buffer = <<>> /\ wire = <<>> /\ eof = 0 /\ numbered = 0 /\ bio = <<>>
      /\ slice = [s \in Senders |-> <<>>] /\ sending = FALSE /\ ssl = "idle" /\ tls = "none"
  BY DEF ConnInit, TransportInit, SslInit
<1>2. <<>> \in Seq(Nat) /\ <<>> \in Seq(Seq(Nat))
  OBVIOUS
<1>3. slice \in [Senders -> Seq(Nat)]
  BY <1>1, <1>2
<1> QED
  BY <1>1, <1>2, <1>3 DEF OutTyped

LEMMA OutHolds == ConnSpec => []OutTyped
  BY OutInit, OutStep, LinkHolds, PTL DEF ConnSpec

\* Every variable of the connection keeps to its type: the counts to what the peer has sent,
\* a generation that was seen to one that was fed, what is thrown to what is woken.
THEOREM ConnectionTyped == ConnSpec => []ConnTypeOK
<1>1. LinkInv /\ StandInv /\ StreamInv /\ OutTyped /\ ServingInv => ConnTypeOK
  BY DEF LinkInv, StandInv, StreamInv, ServingInv, ConnTypeOK
<1> QED
  BY <1>1, LinkHolds, StandHolds, StreamHolds, OutHolds, ServingHolds, PTL


-----------------------------------------------------------------------------
\* The order of what is sent.  The numbers a + 1, ..., c in a row; some, or any, of them;
\* and chunks that follow one another from a to c.
PartOf(s, a, c) == a <= c /\ Len(s) = c - a /\ \A j \in 1..Len(s) : s[j] = a + j
RunOf(s, a, c)  == a < c /\ PartOf(s, a, c)
ChainOf(b, a, c) ==
  \E e \in [0..Len(b) -> Nat] :
    e[0] = a /\ e[Len(b)] = c /\ \A i \in 1..Len(b) : RunOf(b[i], e[i - 1], e[i])

Ordered(w) == \A i \in DOMAIN w : w[i] = i

LEMMA ChainEmpty == ASSUME NEW a \in Nat, NEW c \in Nat, a = c PROVE ChainOf(<<>>, a, c)
<1> DEFINE e == [i \in 0..0 |-> a]
<1>1. e \in [0..0 -> Nat] /\ e[0] = a
  OBVIOUS
<1>2. Len(<<>>) = 0
  OBVIOUS
<1> HIDE DEF e
<1>3. \A i \in 1..0 : RunOf(<<>>[i], e[i - 1], e[i])
  OBVIOUS
<1> QED
  BY <1>1, <1>2, <1>3 DEF ChainOf

LEMMA ChainNothing ==
  ASSUME NEW a \in Nat, NEW c \in Nat, ChainOf(<<>>, a, c) PROVE a = c
<1>1. Len(<<>>) = 0
  OBVIOUS
<1> QED
  BY <1>1 DEF ChainOf

LEMMA ChainAppend ==
  ASSUME NEW b \in Seq(Seq(Nat)), NEW s \in Seq(Nat), NEW a \in Nat, NEW c \in Nat, NEW d \in Nat,
         ChainOf(b, a, c), RunOf(s, c, d)
  PROVE  ChainOf(Append(b, s), a, d)
<1>0. Len(b) \in Nat /\ Len(Append(b, s)) = Len(b) + 1
  OBVIOUS
<1>1. PICK e \in [0..Len(b) -> Nat] :
        e[0] = a /\ e[Len(b)] = c /\ \A i \in 1..Len(b) : RunOf(b[i], e[i - 1], e[i])
  BY DEF ChainOf
<1> DEFINE f == [i \in 0..(Len(b) + 1) |-> IF i = Len(b) + 1 THEN d ELSE e[i]]
<1>2. f \in [0..(Len(b) + 1) -> Nat] /\ f[0] = a /\ f[Len(b)] = c /\ f[Len(b) + 1] = d
  BY <1>0, <1>1
<1>3. \A i \in 0..Len(b) : f[i] = e[i]
  BY <1>0
<1> HIDE DEF f
<1>4. ASSUME NEW i \in 1..(Len(b) + 1) PROVE RunOf(Append(b, s)[i], f[i - 1], f[i])
  <2>1. CASE i \in 1..Len(b)
    <3>1. Append(b, s)[i] = b[i]
      BY <2>1
    <3>2. f[i - 1] = e[i - 1] /\ f[i] = e[i]
      BY <1>0, <1>3, <2>1
    <3> QED
      BY <1>1, <2>1, <3>1, <3>2
  <2>2. CASE i = Len(b) + 1
    <3>1. Append(b, s)[i] = s /\ i - 1 = Len(b)
      BY <1>0, <2>2
    <3> QED
      BY <1>2, <2>2, <3>1
  <2> QED
    BY <1>0, <2>1, <2>2
<1> QED
  BY <1>0, <1>2, <1>4 DEF ChainOf

LEMMA ChainTail ==
  ASSUME NEW b \in Seq(Seq(Nat)), b # <<>>, NEW a \in Nat, NEW c \in Nat, ChainOf(b, a, c)
  PROVE  \E m \in Nat : RunOf(Head(b), a, m) /\ ChainOf(Tail(b), m, c)
<1>0. /\ Len(b) \in Nat /\ Len(b) > 0 /\ Head(b) = b[1]
      /\ Len(Tail(b)) = Len(b) - 1 /\ \A i \in 1..(Len(b) - 1) : Tail(b)[i] = b[i + 1]
  OBVIOUS
<1>1. PICK e \in [0..Len(b) -> Nat] :
        e[0] = a /\ e[Len(b)] = c /\ \A i \in 1..Len(b) : RunOf(b[i], e[i - 1], e[i])
  BY DEF ChainOf
<1> DEFINE f == [i \in 0..(Len(b) - 1) |-> e[i + 1]]
<1>2. f \in [0..(Len(b) - 1) -> Nat] /\ f[0] = e[1] /\ f[Len(b) - 1] = c
  BY <1>0, <1>1, SMTT(30)
<1>3. \A i \in 0..(Len(b) - 1) : f[i] = e[i + 1]
  BY <1>0
<1> HIDE DEF f
<1>4. ASSUME NEW i \in 1..(Len(b) - 1) PROVE RunOf(Tail(b)[i], f[i - 1], f[i])
  <2>1. i + 1 \in 1..Len(b) /\ f[i - 1] = e[i] /\ f[i] = e[i + 1] /\ i + 1 - 1 = i
    BY <1>0, <1>3
  <2>2. RunOf(b[i + 1], e[i + 1 - 1], e[i + 1])
    BY <1>1, <2>1
  <2> QED
    BY <1>0, <2>1, <2>2
<1>5. RunOf(b[1], e[1 - 1], e[1]) /\ e[1] \in Nat
  BY <1>0, <1>1, SMTT(30)
<1>6. RunOf(Head(b), a, e[1])
  BY <1>0, <1>1, <1>5
<1>7. ChainOf(Tail(b), e[1], c)
  BY <1>0, <1>2, <1>4 DEF ChainOf
<1> QED
  BY <1>5, <1>6, <1>7

LEMMA ChainPush ==
  ASSUME NEW b \in Seq(Seq(Nat)), NEW s \in Seq(Nat), NEW a \in Nat, NEW m \in Nat, NEW c \in Nat,
         RunOf(s, a, m), ChainOf(b, m, c)
  PROVE  ChainOf(<<s>> \o b, a, c)
<1>0. /\ Len(b) \in Nat /\ <<s>> \in Seq(Seq(Nat)) /\ Len(<<s>>) = 1 /\ <<s>>[1] = s
  OBVIOUS
<1>a. /\ Len(<<s>> \o b) = Len(b) + 1 /\ (<<s>> \o b)[1] = s
      /\ \A i \in 2..(Len(b) + 1) : (<<s>> \o b)[i] = b[i - 1]
  BY <1>0, ConcatProperties
<1>1. PICK e \in [0..Len(b) -> Nat] :
        e[0] = m /\ e[Len(b)] = c /\ \A i \in 1..Len(b) : RunOf(b[i], e[i - 1], e[i])
  BY DEF ChainOf
<1> DEFINE f == [i \in 0..(Len(b) + 1) |-> IF i = 0 THEN a ELSE e[i - 1]]
<1>2. f \in [0..(Len(b) + 1) -> Nat] /\ f[0] = a /\ f[Len(b) + 1] = c
  BY <1>0, <1>1
<1>3. \A i \in 1..(Len(b) + 1) : f[i] = e[i - 1]
  BY <1>0
<1> HIDE DEF f
<1>4. ASSUME NEW i \in 1..(Len(b) + 1) PROVE RunOf((<<s>> \o b)[i], f[i - 1], f[i])
  <2>1. CASE i = 1
    <3>1. f[i] = m /\ f[i - 1] = a
      BY <1>0, <1>1, <1>2, <1>3, <2>1
    <3> QED
      BY <1>a, <2>1, <3>1
  <2>2. CASE i \in 2..(Len(b) + 1)
    <3>1. i - 1 \in 1..Len(b) /\ f[i] = e[i - 1] /\ f[i - 1] = e[i - 1 - 1]
      BY <1>0, <1>3, <2>2
    <3>2. RunOf(b[i - 1], e[i - 1 - 1], e[i - 1])
      BY <1>1, <3>1
    <3> QED
      BY <1>a, <2>2, <3>1, <3>2
  <2> QED
    BY <1>0, <2>1, <2>2
<1> QED
  BY <1>a, <1>2, <1>4 DEF ChainOf

\* The numbers a + 1, ..., c in one chunk.
LEMMA ChainOne ==
  ASSUME NEW s \in Seq(Nat), NEW a \in Nat, NEW c \in Nat, RunOf(s, a, c) PROVE ChainOf(<<s>>, a, c)
<1>1. ChainOf(<<>>, a, a) /\ <<>> \in Seq(Seq(Nat))
  BY ChainEmpty
<1>2. Append(<<>>, s) = <<s>>
  OBVIOUS
<1> QED
  BY <1>1, <1>2, ChainAppend

\* Of a run that continues what is sent, a part is sent and the rest continues that.
LEMMA SendRun ==
  ASSUME NEW w \in Seq(Nat), Ordered(w), NEW s \in Seq(Nat), NEW c \in Nat,
         PartOf(s, Len(w), c), NEW k \in 0..Len(s)
  PROVE  /\ Ordered(w \o SubSeq(s, 1, k)) /\ Len(w \o SubSeq(s, 1, k)) = Len(w) + k
         /\ PartOf(Left(s, k), Len(w) + k, c)
<1> DEFINE p == SubSeq(s, 1, k)
           q == Left(s, k)
<1>1. /\ p \in Seq(Nat) /\ Len(p) = k /\ \A i \in 1..k : p[i] = s[i]
      /\ q \in Seq(Nat) /\ Len(q) = Len(s) - k /\ \A i \in 1..(Len(s) - k) : q[i] = s[k + i]
  BY PartsTyped
<1>2. Len(w) \in Nat /\ Len(s) \in Nat /\ k \in Nat /\ k <= Len(s) /\ DOMAIN w = 1..Len(w)
  OBVIOUS
<1> HIDE DEF p, q
<1>3. /\ Len(w \o p) = Len(w) + Len(p) /\ DOMAIN (w \o p) = 1..(Len(w) + Len(p))
      /\ \A i \in 1..(Len(w) + Len(p)) : (w \o p)[i] = IF i <= Len(w) THEN w[i] ELSE p[i - Len(w)]
  <2>1. /\ w \o p \in Seq(Nat) /\ Len(w \o p) = Len(w) + Len(p)
        /\ \A i \in 1..(Len(w) + Len(p)) : (w \o p)[i] = IF i <= Len(w) THEN w[i] ELSE p[i - Len(w)]
    BY <1>1, ConcatProperties
  <2>2. DOMAIN (w \o p) = 1..Len(w \o p)
    BY <2>1
  <2> QED
    BY <2>1, <2>2
<1>4. ASSUME NEW i \in 1..(Len(w) + k) PROVE (w \o p)[i] = i
  <2>1. CASE i <= Len(w)
    <3>1. i \in DOMAIN w /\ (w \o p)[i] = w[i]
      BY <1>1, <1>2, <1>3, <2>1
    <3> QED
      BY <3>1 DEF Ordered
  <2>2. CASE i > Len(w)
    <3>1. i - Len(w) \in 1..k /\ i - Len(w) \in 1..Len(s)
      BY <1>2, <2>2
    <3>2. (w \o p)[i] = p[i - Len(w)] /\ p[i - Len(w)] = s[i - Len(w)]
      <4>1. i \in 1..(Len(w) + Len(p)) /\ ~(i <= Len(w))
        BY <1>1, <1>2, <2>2
      <4>2. (w \o p)[i] = p[i - Len(w)]
        BY <1>3, <4>1
      <4> QED
        BY <1>1, <3>1, <4>2
    <3>3. s[i - Len(w)] = Len(w) + (i - Len(w))
      BY <3>1 DEF PartOf
    <3>4. Len(w) + (i - Len(w)) = i
      BY <1>2
    <3> QED
      BY <3>2, <3>3, <3>4
  <2>3. i <= Len(w) \/ i > Len(w)
    BY <1>2
  <2> QED
    BY <2>1, <2>2, <2>3
<1>5. Len(q) = c - (Len(w) + k) /\ Len(w) + k <= c
  BY <1>1, <1>2 DEF PartOf
<1>6. ASSUME NEW j \in 1..Len(q) PROVE q[j] = Len(w) + k + j
  <2>1. k + j \in 1..Len(s)
    BY <1>1, <1>2
  <2>2. q[j] = s[k + j] /\ s[k + j] = Len(w) + (k + j)
    BY <1>1, <2>1 DEF PartOf
  <2> QED
    BY <1>2, <2>1, <2>2
<1> QED
  BY <1>1, <1>3, <1>4, <1>5, <1>6 DEF PartOf, Ordered, p, q


-----------------------------------------------------------------------------
\* No connection is upgraded: it is a TLS one from its start, or never.  (An upgrade writes
\* its first record without the lock.)
NoUpgrade == \A t \in Tasks : \A i \in DOMAIN setup.script[t] : setup.script[t][i] # "starttls"

\* What such a connection has of SSLProtocol.
ModeSafe ==
  /\ ~setup.tls => tls = "none" /\ ~resume
  /\ setup.tls => eof = 0
  /\ setup.tls /\ opener = "open" => Encrypted \/ tls = "failed"
  /\ tls # "set" /\ ssl \in {"idle", "read"}
  /\ tls = "failed" => connLost
  /\ connLost => closing
  /\ tls = "none" \/ state # "new"
  /\ opener = "open" => state # "new"
  /\ \A t \in Tasks : tpc[t] = "enter" => opener = "open"

LEMMA NoStartTls == ASSUME NoUpgrade, NEW t \in Tasks PROVE Op(t) # "starttls"
  BY DEF NoUpgrade, Op

\* What may happen to the transport and cannot be undone.
Ends ==
  /\ connLost => connLost'
  /\ closing => closing'
  /\ connLost' => connLost \/ closing'
  /\ UNCHANGED state

LEMMA CloseStays == Close => Ends /\ UNCHANGED sockOpen
  BY DEF Close, Ends

LEMMA ForceStays == Forced => Ends /\ UNCHANGED sockOpen
  BY DEF ForceClose, Ends

LEMMA FeedStays == ASSUME NEW n, FeedData(n) PROVE Ends /\ UNCHANGED sockOpen
  BY DEF FeedData, Ends

LEMMA RawStays == ASSUME NEW s, RawWrite(s) PROVE Ends /\ UNCHANGED sockOpen
<1>1. CASE connLost \/ ~sockOpen
  BY <1>1 DEF RawWrite, Ends
<1>2. CASE ~(connLost \/ ~sockOpen) /\ peer = "reset"
  BY <1>2, ForceStays DEF RawWrite
<1>3. CASE ~(connLost \/ ~sockOpen) /\ peer # "reset"
  BY <1>3 DEF RawWrite, Ends
<1> QED
  BY <1>1, <1>2, <1>3

LEMMA LinkStays == UNCHANGED linkVars => Ends /\ UNCHANGED sockOpen
  BY DEF Ends

LEMMA ReadRunStays == ASSUME NEW r \in Readers, ReadRun(r) PROVE Ends /\ UNCHANGED sockOpen
<1>1. \/ UNCHANGED linkVars \/ Forced \/ FeedData(incoming + inbox) \/ Close
      \/ UNCHANGED <<closing, connLost, tpaused, sockOpen, writing, state, lostSoon>>
  <2> HIDE DEF linkVars
  <2> QED
    BY DEF ReadRun, HandshakeFails
<1> QED
  BY <1>1, LinkStays, ForceStays, FeedStays, CloseStays DEF Ends

LEMMA Stays ==
  ASSUME LinkTyped, [ConnNext]_connectionVars
  PROVE  /\ UNCHANGED setup
         /\ connLost => connLost'
         /\ opener = "open" => opener' = "open"
         /\ state # "new" => state' # "new"
         /\ closing => closing'
         /\ connLost' => connLost \/ closing'
<1> DEFINE Kept == UNCHANGED <<setup, opener>> /\ Ends
<1>1. ASSUME NEW t \in Tasks, TaskQuiet(t) PROVE Kept
  <2>1. UNCHANGED linkState
    BY <1>1, TaskQuietLink
  <2> QED
    BY <2>1 DEF linkState, Ends
<1>2. ASSUME NEW t \in Tasks, WriteEnter(t) \/ CloseTransport(t) \/ AbortTransport(t) \/ Resume(t)
      PROVE  Kept
  <2>1. CASE WriteEnter(t)
    BY <2>1, LinkStays DEF WriteEnter
  <2>2. CASE CloseTransport(t)
    BY <2>2, CloseStays DEF CloseTransport
  <2>3. CASE AbortTransport(t)
    BY <2>3, ForceStays DEF AbortTransport
  <2>4. CASE Resume(t)
    BY <2>4 DEF Resume, ResumeReading, Ends
  <2> QED
    BY <1>2, <2>1, <2>2, <2>3, <2>4
<1>3. ASSUME NEW t \in Tasks, WriteRaw(t) PROVE Kept
  BY <1>3, RawStays DEF WriteRaw
<1>4. ASSUME NEW t \in Tasks, CloseTls(t) \/ StartTlsEnd(t) PROVE Kept
  <2>1. UNCHANGED <<setup, opener>> /\ (UNCHANGED linkVars \/ Close \/ FeedData(incoming))
    BY <1>4 DEF CloseTls, StartTlsEnd
  <2> QED
    BY <2>1, LinkStays, CloseStays, FeedStays
<1>5. ASSUME NEW r \in Readers, ReadStep(r) PROVE Kept
  <2>1. CASE ReadCheck(r)
    BY <2>1, LinkStays DEF ReadCheck
  <2>2. CASE ReadRun(r)
    BY <2>2, ReadRunStays DEF ReadRun
  <2> QED
    BY <1>5, <2>1, <2>2 DEF ReadStep
<1>6. CASE WriteReady
  <2>1. UNCHANGED <<setup, opener>> /\ (Forced \/ UNCHANGED linkVars)
    BY <1>6 DEF WriteReady, WriteSend
  <2> QED
    BY <2>1, ForceStays, LinkStays DEF Ends
<1>7. CASE WritePut
  <2>1. /\ UNCHANGED setup
        /\ \/ CallConnectionLost /\ opener' = IF opener = "await" THEN "gaveup" ELSE opener
           \/ UNCHANGED <<closing, connLost, state, opener>>
    BY <1>7 DEF WritePut
  <2> QED
    BY <2>1 DEF CallConnectionLost
<1>8. CASE Startup \/ Lost
  <2>1. CASE Startup
    BY <2>1 DEF Startup
  <2>2. CASE Lost
    <3>1. /\ UNCHANGED <<setup, connLost>> /\ state' = "lost" /\ closing' = TRUE
          /\ opener' = IF opener = "await" THEN "gaveup" ELSE opener
      BY <2>2 DEF Lost, CallConnectionLost
    <3> QED
      BY <3>1
  <2> QED
    BY <1>8, <2>1, <2>2
<1>9. CASE Begin \/ BeginResume \/ CloseUnwrapped
  <2>1. UNCHANGED <<setup, opener>> /\ (UNCHANGED linkVars \/ ResumeReading \/ Close)
    BY <1>9 DEF Begin, BeginResume, CloseUnwrapped
  <2>2. ResumeReading => Ends
    BY DEF ResumeReading, Ends
  <2> QED
    BY <2>1, <2>2, CloseStays, LinkStays DEF Ends
<1>10. CASE DoRead
  <2>1. UNCHANGED <<setup, opener>> /\ (UNCHANGED linkVars \/ FeedData(incoming))
    BY <1>10 DEF DoRead
  <2> QED
    BY <2>1, LinkStays, FeedStays DEF Ends
<1>11. CASE SslWrite
  BY <1>11, RawStays DEF SslWrite, Ends
<1>12. CASE HandshakeComplete \/ ShutdownComplete
  BY <1>12 DEF HandshakeComplete, ShutdownComplete
<1>13. CASE SslTimeout \/ HandshakeError
  BY <1>13, ForceStays DEF SslTimeout, HandshakeError,
     HandshakeFails, HandshakeTimeout, ShutdownTimeout, Ends
<1>14. CASE DeferExpires \/ Accept \/ PeerSends \/ PeerEnds \/ ServerStep
  BY <1>14 DEF DeferExpires, Accept, PeerSends, PeerEnds, ServerStep
<1>15. CASE GiveUp
  BY <1>15, CloseStays DEF GiveUp, Ends
<1>16. CASE UNCHANGED connectionVars
  BY <1>16 DEF connectionVars
<1>17. Kept => /\ UNCHANGED setup
               /\ connLost => connLost'
               /\ opener = "open" => opener' = "open"
               /\ state # "new" => state' # "new"
               /\ closing => closing'
               /\ connLost' => connLost \/ closing'
  BY DEF Ends
<1> HIDE DEF Kept
<1> QED
  BY <1>1, <1>2, <1>3, <1>4, <1>5, <1>6, <1>7, <1>8, <1>9, <1>10, <1>11, <1>12, <1>13, <1>14,
     <1>15, <1>16, <1>17
     DEF ConnNext, TaskStep, TaskQuiet, WriteStep, HandleStep

\* Where the tasks go that do not write.
WritePCs == {"enter", "outgoing", "raw"}

PcQuiet == \A u \in Tasks : tpc'[u] = tpc[u] \/ (tpc[u] \notin WritePCs /\ tpc'[u] \notin WritePCs)
PcMove(t, l) == \A u \in Tasks : tpc'[u] = IF u = t THEN l ELSE tpc[u]

LEMMA GoToMoves == ASSUME TaskTyped, NEW t \in Tasks, NEW l, GoTo(t, l) PROVE PcMove(t, l)
  BY DEF TaskTyped, GoTo, PcMove

LEMMA ReturnMoves ==
  ASSUME TaskTyped, NEW t \in Tasks, Return(t) \/ Raise(t) PROVE PcMove(t, "op")
  BY GoToMoves DEF Return, Raise

LEMMA QuietMoves ==
  ASSUME NEW t \in Tasks, NEW l, PcMove(t, l), tpc[t] \notin WritePCs,
         l \notin WritePCs PROVE PcQuiet
  BY DEF PcMove, PcQuiet

TaskReads(t) ==
  \/ Suspend(t) \/ Requeue(t) \/ Drain(t) \/ DrainHelper(t) \/ DrainWoken(t)
  \/ ReadStart(t) \/ ReadLook(t) \/ WaitPaused(t) \/ Resume(t) \/ WaitForData(t) \/ WaitWoken(t)
  \/ ReadCopy(t) \/ ReadDelete(t) \/ MaybeResume(t)

LEMMA SuspendedQuiet == ASSUME NEW t \in Tasks PROVE Suspended(t) \notin WritePCs
  BY DEF Suspended, WritePCs

LEMMA ReadsQuiet == ASSUME TaskTyped, NEW t \in Tasks, TaskReads(t) PROVE PcQuiet
<1>1. tpc[t] \notin WritePCs
  BY DEF TaskReads, Suspend, Requeue, Drain, DrainHelper, DrainWoken, ReadStart, ReadLook,
     WaitPaused,
         Resume, WaitForData, WaitWoken, ReadCopy, ReadDelete, MaybeResume, WritePCs, Runs
<1>2. \/ Return(t) \/ Raise(t) \/ GoTo(t, Suspended(t))
      \/ \E l \in ConnPCs \ WritePCs : GoTo(t, l)
  <2>1. CASE Suspend(t) \/ Requeue(t)
    BY <2>1 DEF Suspend, Requeue, ConnPCs, WritePCs
  <2>2. CASE Drain(t) \/ DrainHelper(t) \/ DrainWoken(t)
    BY <2>2 DEF Drain, DrainHelper, DrainWoken, ConnPCs, WritePCs
  <2>3. CASE ReadStart(t) \/ ReadLook(t) \/ WaitPaused(t) \/ Resume(t)
    BY <2>3 DEF ReadStart, ReadLook, WaitPaused, Resume, ConnPCs, WritePCs
  <2>4. CASE WaitForData(t) \/ WaitWoken(t) \/ ReadCopy(t) \/ ReadDelete(t) \/ MaybeResume(t)
    BY <2>4 DEF WaitForData, WaitLook, WaitWoken, Look, ReadCopy, ReadDelete,
                   MaybeResume, ConnPCs, WritePCs
  <2> QED
    BY <2>1, <2>2, <2>3, <2>4 DEF TaskReads
<1>3. "op" \notin WritePCs
  BY DEF WritePCs
<1> QED
  BY <1>1, <1>2, <1>3, GoToMoves, ReturnMoves, SuspendedQuiet, QuietMoves

LEMMA PcKept == UNCHANGED tpc => PcQuiet
  BY DEF PcQuiet


LEMMA EnterStep ==
  ASSUME TaskTyped, [ConnNext]_connectionVars, NEW u \in Tasks, tpc'[u] = "enter"
  PROVE  tpc[u] = "enter" \/ opener = "open"
<1>1. ASSUME NEW t \in Tasks, TaskReads(t) PROVE PcQuiet
  BY <1>1, ReadsQuiet
<1>2. ASSUME NEW t \in Tasks, Write(t) PROVE opener = "open"
  BY <1>2 DEF Write, Runs
<1>3. ASSUME NEW t \in Tasks, WriteEnter(t) \/ WriteOutgoing(t) \/ WriteRaw(t) \/ WriteEof(t)
                              \/ CloseTransport(t) \/ AbortTransport(t) \/ CloseTls(t)
                              \/ StartTls(t) \/ StartTlsEnd(t)
      PROVE  \E l \in ConnPCs \ {"enter"} : PcMove(t, l)
  <2>1. Return(t) \/ Raise(t) \/ \E l \in {"raw", "outgoing", "suspend"} : GoTo(t, l)
    <3>1. CASE WriteEnter(t) \/ WriteOutgoing(t) \/ WriteRaw(t)
      BY <3>1 DEF WriteEnter, WriteOutgoing, WriteRaw
    <3>2. CASE WriteEof(t) \/ CloseTransport(t) \/ AbortTransport(t)
      BY <3>2 DEF WriteEof, CloseTransport, AbortTransport
    <3>3. CASE CloseTls(t) \/ StartTls(t) \/ StartTlsEnd(t)
      BY <3>3 DEF CloseTls, StartTls, StartTlsEnd
    <3> QED
      BY <1>3, <3>1, <3>2, <3>3
  <2>2. \A l \in {"op", "raw", "outgoing", "suspend"} : l \in ConnPCs \ {"enter"}
    BY DEF ConnPCs
  <2> QED
    BY <2>1, <2>2, GoToMoves, ReturnMoves
<1>4. ASSUME NEW t \in Tasks, TaskStep(t) PROVE tpc[u] = "enter" \/ opener = "open"
  BY <1>1, <1>2, <1>3, <1>4 DEF TaskStep, TaskReads, PcQuiet, PcMove, WritePCs
<1>5. CASE UNCHANGED tpc
  BY <1>5
<1>6. CASE ~\E t \in Tasks : TaskStep(t)
  <2> USE DEF taskVars
  <2>1. CASE (\E r \in Readers : ReadStep(r)) \/ WriteStep
    BY <1>5, <2>1 DEF ReadStep, ReadCheck, ReadRun, WriteStep, WriteReady, WritePut
  <2>2. CASE HandleStep
    BY <1>5, <2>2 DEF HandleStep, Startup, Lost, Begin, SslWrite, BeginResume, DoRead,
       CloseUnwrapped
  <2>3. CASE HandshakeComplete \/ ShutdownComplete \/ SslTimeout
           \/ HandshakeError \/ DeferExpires \/ Accept \/ GiveUp
    BY <1>5, <2>3 DEF HandshakeComplete, ShutdownComplete, SslTimeout,
                      HandshakeError, HandshakeFails, HandshakeTimeout,
                      ShutdownTimeout, DeferExpires, Accept, GiveUp
  <2>4. CASE PeerSends \/ PeerEnds \/ ServerStep \/ UNCHANGED connectionVars
    BY <1>5, <2>4 DEF PeerSends, PeerEnds, ServerStep, connectionVars
  <2> QED
    BY <1>6, <2>1, <2>2, <2>3, <2>4 DEF ConnNext
<1> QED
  BY <1>4, <1>6

\* Whatever a step leaves of the mode, what does not come back does the rest.
LEMMA ModeFrom ==
  ASSUME LinkTyped, TaskTyped, [ConnNext]_connectionVars, ModeSafe,
         ~setup.tls => tls' = "none" /\ ~resume',
         setup.tls => eof' = 0,
         setup.tls /\ opener' = "open" => Encrypted' \/ tls' = "failed",
         tls' # "set", ssl' \in {"idle", "read"}, tls' = "failed" => connLost',
         tls' = "none" \/ state' # "new", opener' = "open" => state' # "new"
  PROVE  ModeSafe'
<1>1. UNCHANGED setup /\ (opener = "open" => opener' = "open") /\ (connLost' => closing')
  BY Stays DEF ModeSafe
<1>2. \A t \in Tasks : tpc'[t] = "enter" => opener' = "open"
  BY <1>1, EnterStep DEF ModeSafe
<1> QED
  BY <1>1, <1>2 DEF ModeSafe

modeVars == <<eof, tls, resume, ssl>>

LEMMA ModeKept ==
  ASSUME LinkTyped, TaskTyped, [ConnNext]_connectionVars, ModeSafe, UNCHANGED modeVars,
         opener' = "open" => opener = "open"
  PROVE  ModeSafe'
<1>1. UNCHANGED setup /\ (connLost => connLost') /\ (state # "new" => state' # "new")
  BY Stays
<1>2. Encrypted' <=> Encrypted
  BY DEF Encrypted, modeVars
<1> QED
  BY <1>1, <1>2, ModeFrom DEF ModeSafe, modeVars

LEMMA TaskMode ==
  ASSUME LinkTyped, TaskTyped, NoUpgrade, ModeSafe, NEW t \in Tasks, TaskStep(t) PROVE ModeSafe'
<1>0. [ConnNext]_connectionVars
  BY DEF ConnNext
<1>s. UNCHANGED setup /\ (connLost => connLost') /\ (state # "new" => state' # "new")
  BY <1>0, Stays
<1> USE DEF modeVars
<1>1. CASE Write(t) \/ WriteEnter(t) \/ WriteOutgoing(t) \/ WriteRaw(t) \/ CloseTransport(t)
  <2>1. UNCHANGED modeVars /\ UNCHANGED opener
    BY <1>1 DEF Write, WriteEnter, WriteOutgoing, WriteRaw, CloseTransport, outVars, tlsVars
  <2> QED
    BY <1>0, <2>1, ModeKept
<1>2. CASE Suspend(t) \/ Requeue(t) \/ Drain(t) \/ DrainHelper(t) \/ DrainWoken(t) \/ ReadStart(t)
  <2>1. UNCHANGED modeVars /\ UNCHANGED opener
    BY <1>2 DEF Suspend, Requeue, Drain, DrainHelper, DrainWoken, ReadStart, outVars, tlsVars
  <2> QED
    BY <1>0, <2>1, ModeKept
<1>3. CASE ReadLook(t) \/ WaitPaused(t) \/ WaitForData(t) \/ WaitWoken(t) \/ ReadCopy(t)
         \/ ReadDelete(t)
           \/ MaybeResume(t)
  <2>1. UNCHANGED modeVars /\ UNCHANGED opener
    BY <1>3 DEF ReadLook, WaitPaused, WaitForData, WaitWoken, ReadCopy,
                ReadDelete, MaybeResume, outVars,
       tlsVars
  <2> QED
    BY <1>0, <2>1, ModeKept
<1>4. CASE Resume(t)
  <2>1. UNCHANGED <<eof, tls, ssl, opener, state>> /\ (resume' => resume \/ Encrypted)
    BY <1>4 DEF Resume, ResumeReading, ResumeSsl, outVars
  <2>2. Encrypted' <=> Encrypted
    BY <2>1 DEF Encrypted
  <2>3. Encrypted => setup.tls
    BY DEF Encrypted, ModeSafe, LinkTyped
  <2> QED
    BY <1>0, <1>s, <2>1, <2>2, <2>3, ModeFrom DEF ModeSafe
<1>5. CASE WriteEof(t)
  <2>1. /\ UNCHANGED <<tls, resume, ssl, opener, state>> /\ tpc[t] = "enter"
        /\ eof' = eof \/ (~Encrypted /\ ~closing)
    BY <1>5 DEF WriteEof, tlsVars
  <2>2. Encrypted' <=> Encrypted
    BY <2>1 DEF Encrypted
  <2>3. setup.tls => eof' = 0
    BY <2>1 DEF ModeSafe
  <2> QED
    BY <1>0, <1>s, <2>1, <2>2, <2>3, ModeFrom DEF ModeSafe
<1>6. CASE AbortTransport(t)
  <2>1. /\ UNCHANGED <<eof, resume, ssl, opener, state>> /\ Forced
        /\ tls' = IF Encrypted THEN "failed" ELSE tls
    BY <1>6, ForceStays DEF AbortTransport, Ends
  <2>2. connLost'
    BY <2>1 DEF ForceClose
  <2>3. Encrypted => setup.tls
    BY DEF Encrypted, ModeSafe, LinkTyped
  <2>4. CASE Encrypted
    <3>1. setup.tls /\ tls' = "failed" /\ state # "new" /\ eof = 0 /\ ssl \in {"idle", "read"}
      BY <2>1, <2>3, <2>4 DEF ModeSafe, Encrypted
    <3> QED
      BY <1>0, <2>1, <2>2, <3>1, ModeFrom
  <2>5. CASE ~Encrypted
    BY <1>0, <2>1, <2>5, ModeKept
  <2> QED
    BY <2>4, <2>5
<1>7. CASE CloseTls(t)
  <2>1. /\ UNCHANGED <<eof, resume, ssl, opener>> /\ Encrypted
        /\ tls' = tls \/ tls' = "shutdown"
    BY <1>7 DEF CloseTls
  <2>2. Encrypted'
    BY <2>1 DEF Encrypted
  <2>3. setup.tls /\ state # "new" /\ tls' # "set" /\ tls' # "failed"
    BY <2>1 DEF Encrypted, ModeSafe, LinkTyped
  <2> QED
    BY <1>0, <1>s, <2>1, <2>2, <2>3, ModeFrom DEF ModeSafe
<1>8. ~StartTls(t) /\ ~StartTlsEnd(t)
  BY NoStartTls DEF StartTls, StartTlsEnd, Runs
<1> QED
  BY <1>1, <1>2, <1>3, <1>4, <1>5, <1>6, <1>7, <1>8 DEF TaskStep

LEMMA ModeStep ==
  ASSUME LinkTyped, TaskTyped, NoUpgrade, ModeSafe, [ConnNext]_connectionVars PROVE ModeSafe'
<1>s. UNCHANGED setup /\ (connLost => connLost') /\ (state # "new" => state' # "new")
  BY Stays
<1>1. ASSUME NEW t \in Tasks, TaskStep(t) PROVE ModeSafe'
  BY <1>1, TaskMode
<1>2. ASSUME NEW r \in Readers, ReadStep(r) PROVE ModeSafe'
  <2>1. UNCHANGED <<eof, resume, ssl, opener>>
    BY <1>2 DEF ReadStep, ReadCheck, ReadRun, outVars, tlsVars
  <2>2. UNCHANGED tls \/ (Forced /\ tls = "begun" /\ tls' = "failed")
    BY <1>2 DEF ReadStep, ReadCheck, ReadRun, HandshakeFails, tlsVars
  <2>3. CASE UNCHANGED tls
    BY <2>1, <2>3, ModeKept DEF modeVars
  <2>4. CASE Forced /\ tls = "begun" /\ tls' = "failed"
    <3>1. connLost' /\ setup.tls /\ state # "new"
      BY <2>4 DEF ForceClose, ModeSafe
    <3> QED
      BY <1>s, <2>1, <2>4, <3>1, ModeFrom DEF ModeSafe
  <2> QED
    BY <2>2, <2>3, <2>4
<1>3. CASE WriteReady \/ WritePut \/ Lost
  <2>1. UNCHANGED modeVars
    BY <1>3 DEF WriteReady, WriteSend, WritePut, Lost, outVars, tlsVars, modeVars
  <2>2. opener' = "open" => opener = "open"
    BY <1>3 DEF WriteReady, WritePut, Lost
  <2> QED
    BY <2>1, <2>2, ModeKept
<1>4. CASE Startup
  <2>1. /\ state = "new" /\ state' = "made" /\ UNCHANGED <<eof, ssl, resume>>
        /\ tls' = IF setup.tls THEN "begun" ELSE tls
        /\ opener' = IF opener = "await" /\ ~setup.tls THEN "open" ELSE opener
    BY <1>4 DEF Startup, MakeSslTransport, outVars
  <2>2. /\ ~setup.tls => tls' = "none" /\ ~resume'
        /\ setup.tls => eof' = 0 /\ tls' = "begun" /\ opener' # "open"
        /\ ssl' \in {"idle", "read"}
    BY <2>1 DEF ModeSafe
  <2>3. tls' # "set" /\ tls' # "failed"
    BY <2>2
  <2> QED
    BY <2>1, <2>2, <2>3, ModeFrom
<1>5. ~Begin /\ ~BeginResume
  BY DEF Begin, BeginResume, ModeSafe
<1>6. CASE SslWrite
  <2>1. UNCHANGED <<eof, tls, resume, opener>> /\ ssl' = "idle"
    BY <1>6 DEF SslWrite, tlsVars, ModeSafe
  <2>2. Encrypted' <=> Encrypted
    BY <2>1 DEF Encrypted
  <2> QED
    BY <1>s, <2>1, <2>2, ModeFrom DEF ModeSafe
<1>7. CASE DoRead
  <2>1. UNCHANGED <<eof, tls, opener>> /\ resume' = FALSE /\ ssl' \in {ssl, "read"}
    BY <1>7 DEF DoRead
  <2>2. Encrypted' <=> Encrypted
    BY <2>1 DEF Encrypted
  <2> QED
    BY <1>s, <2>1, <2>2, ModeFrom DEF ModeSafe
<1>8. CASE CloseUnwrapped \/ ShutdownComplete \/ HandshakeComplete
  <2>1. /\ UNCHANGED <<eof, ssl>> /\ tls \notin {"none", "failed"}
        /\ tls' \in {"closed", "unwrapped", "done"}
    BY <1>8 DEF CloseUnwrapped, ShutdownComplete, HandshakeComplete, outVars
  <2>2. Encrypted' /\ setup.tls /\ tls' # "set" /\ tls' # "failed"
    BY <2>1 DEF Encrypted, ModeSafe
  <2>3. state # "new"
    BY <2>1 DEF ModeSafe
  <2> QED
    BY <1>s, <2>1, <2>2, <2>3, ModeFrom DEF ModeSafe
<1>9. CASE SslTimeout \/ HandshakeError
  <2>1. /\ UNCHANGED <<eof, resume, ssl, opener>> /\ Forced /\ tls' = "failed"
        /\ tls \in {"begun", "shutdown"}
    BY <1>9 DEF SslTimeout, HandshakeError,
     HandshakeFails, HandshakeTimeout, ShutdownTimeout
  <2>2. connLost'
    BY <2>1 DEF ForceClose
  <2>3. setup.tls /\ state # "new"
    BY <2>1 DEF ModeSafe
  <2> QED
    BY <1>s, <2>1, <2>2, <2>3, ModeFrom DEF ModeSafe
<1>10. CASE DeferExpires \/ Accept \/ GiveUp \/ PeerSends \/ PeerEnds \/ ServerStep
            \/ UNCHANGED connectionVars
  <2>1. UNCHANGED modeVars /\ (opener' = "open" => opener = "open")
    BY <1>10 DEF DeferExpires, Accept, GiveUp, PeerSends, PeerEnds, ServerStep, connectionVars,
       outVars,
                 tlsVars, modeVars
  <2> QED
    BY <2>1, ModeKept
<1> QED
  BY <1>1, <1>2, <1>3, <1>4, <1>5, <1>6, <1>7, <1>8, <1>9, <1>10
     DEF ConnNext, WriteStep, HandleStep

LEMMA ModeInit == ConnInit => ModeSafe
  BY DEF ConnInit, TransportInit, SslInit, OpenConnection, ModeSafe


-----------------------------------------------------------------------------
\* A connection that is lost sends nothing any more.
Dead == connLost => ~writing /\ ~sending

LEMMA CloseDead ==
  ASSUME LinkInv, Dead, lock = Nobody, Close, UNCHANGED sending PROVE Dead'
  BY NotSending, ConnNoneAssumption DEF LinkInv, LinkSafe, Dead, Close, Senders

LEMMA ForceDead == ASSUME Dead, ~sending, Forced, UNCHANGED sending PROVE Dead'
  BY DEF Dead, ForceClose

LEMMA FeedDead == ASSUME NEW n, Dead, FeedData(n), UNCHANGED sending PROVE Dead'
  BY DEF Dead, FeedData

LEMMA ResumeDead == ASSUME Dead, ResumeReading, UNCHANGED sending PROVE Dead'
  BY DEF Dead, ResumeReading

LEMMA RawDead == ASSUME NEW s, Dead, ~sending, RawWrite(s), UNCHANGED sending PROVE Dead'
<1>1. CASE connLost \/ ~sockOpen
  BY <1>1 DEF RawWrite, Dead
<1>2. CASE ~(connLost \/ ~sockOpen) /\ peer = "reset"
  BY <1>2, ForceDead DEF RawWrite
<1>3. CASE ~(connLost \/ ~sockOpen) /\ peer # "reset"
  <2>1. UNCHANGED connLost
    BY <1>3 DEF RawWrite
  <2> QED
    BY <1>3, <2>1 DEF Dead
<1> QED
  BY <1>1, <1>2, <1>3

LEMMA LinkDead == ASSUME Dead, UNCHANGED linkVars, UNCHANGED sending PROVE Dead'
  BY DEF Dead

LEMMA DeadStep == ASSUME LinkInv, Dead, [ConnNext]_connectionVars PROVE Dead'
<1> USE DEF outVars
<1>1. ASSUME NEW t \in Tasks, TaskQuiet(t) PROVE Dead'
  BY <1>1, TaskQuietLink DEF linkState, Dead
<1>2. ASSUME NEW t \in Tasks, WriteEnter(t) \/ CloseTransport(t) \/ AbortTransport(t) \/ Resume(t)
      PROVE  Dead'
  <2>1. CASE WriteEnter(t)
    BY <2>1, LinkDead DEF WriteEnter
  <2>2. CASE CloseTransport(t)
    BY <2>2, CloseDead DEF CloseTransport
  <2>3. CASE AbortTransport(t)
    BY <2>3, ForceDead, NotSending, ConnNoneAssumption DEF AbortTransport, Senders
  <2>4. CASE Resume(t)
    BY <2>4, ResumeDead DEF Resume
  <2> QED
    BY <1>2, <2>1, <2>2, <2>3, <2>4
<1>3. ASSUME NEW t \in Tasks, WriteRaw(t) PROVE Dead'
  <2>1. t # "wready"
    BY ConnNoneAssumption
  <2> QED
    BY <1>3, <2>1, RawDead, NotSending DEF WriteRaw
<1>4. ASSUME NEW t \in Tasks, CloseTls(t) \/ StartTlsEnd(t) PROVE Dead'
  <2>1. UNCHANGED sending /\ (UNCHANGED linkVars \/ (lock = Nobody /\ Close) \/ FeedData(incoming))
    BY <1>4 DEF CloseTls, StartTlsEnd
  <2> QED
    BY <2>1, LinkDead, CloseDead, FeedDead
<1>5. ASSUME NEW r \in Readers, ReadStep(r) PROVE Dead'
  <2>1. CASE ReadCheck(r)
    BY <2>1, LinkDead DEF ReadCheck
  <2>2. CASE ReadRun(r)
    <3>1. lock = Nobody /\ UNCHANGED sending
      BY <2>2 DEF ReadRun
    <3>2. \/ UNCHANGED linkVars \/ Forced \/ FeedData(incoming + inbox) \/ Close
          \/ UNCHANGED <<closing, connLost, tpaused, sockOpen, writing, state, lostSoon>>
      <4> HIDE DEF linkVars
      <4> QED
        BY <2>2 DEF ReadRun, HandshakeFails
    <3>3. ~sending
      BY <3>1, NotSending, ConnNoneAssumption DEF Senders
    <3> QED
      BY <3>1, <3>2, <3>3, LinkDead, ForceDead, FeedDead, CloseDead DEF Dead
  <2> QED
    BY <1>5, <2>1, <2>2 DEF ReadStep
<1>6. CASE WriteReady
  <2>1. /\ writing /\ ~sending
        /\ (Forced /\ UNCHANGED sending) \/ UNCHANGED linkVars
    BY <1>6 DEF WriteReady, WriteSend
  <2> QED
    BY <2>1, ForceDead DEF Dead
<1>7. CASE WritePut
  <2>1. sending /\ sending' = FALSE /\ connLost' = connLost
    BY <1>7 DEF WritePut, CallConnectionLost
  <2> QED
    BY <2>1 DEF Dead
<1>8. CASE Startup \/ HandshakeComplete
  BY <1>8 DEF Startup, HandshakeComplete, Dead
<1>9. CASE Lost
  BY <1>9 DEF Lost, CallConnectionLost, Dead
<1>10. CASE BeginResume
  BY <1>10, ResumeDead DEF BeginResume
<1>11. CASE CloseUnwrapped
  BY <1>11, CloseDead DEF CloseUnwrapped
<1>12. CASE GiveUp
  BY <1>12, CloseDead DEF GiveUp
<1>13. CASE DoRead
  <2>1. UNCHANGED sending /\ (UNCHANGED linkVars \/ FeedData(incoming))
    BY <1>13 DEF DoRead
  <2> QED
    BY <2>1, LinkDead, FeedDead
<1>14. CASE SslWrite
  <2>1. lock # "wready" /\ UNCHANGED sending /\ RawWrite("ssl")
    BY <1>14, ConnNoneAssumption DEF SslWrite, Senders
  <2> QED
    BY <2>1, NotSending, RawDead
<1>15. CASE SslTimeout \/ HandshakeError
  <2>1. lock # "wready" /\ UNCHANGED sending /\ Forced
    BY <1>15, ConnNoneAssumption DEF SslTimeout, HandshakeError,
     HandshakeFails, HandshakeTimeout, ShutdownTimeout, Senders
  <2> QED
    BY <2>1, NotSending, ForceDead
<1>16. CASE Begin \/ ShutdownComplete \/ DeferExpires \/ PeerSends \/ PeerEnds \/ ServerStep
  BY <1>16, OtherQuietLink DEF linkState, Dead
<1>17. CASE Accept \/ UNCHANGED connectionVars
  BY <1>17, LinkDead DEF Accept, connectionVars
<1> QED
  BY <1>1, <1>2, <1>3, <1>4, <1>5, <1>6, <1>7, <1>8, <1>9, <1>10, <1>11, <1>12, <1>13, <1>14,
     <1>15, <1>16, <1>17
     DEF ConnNext, TaskStep, TaskQuiet, WriteStep, HandleStep

-----------------------------------------------------------------------------
\* The steps that are no part of a write.
HoldPCs == {"outgoing", "raw"}

PcHeld == \A u \in Tasks : tpc'[u] = tpc[u] \/ (tpc[u] \notin HoldPCs /\ tpc'[u] \notin HoldPCs)

holdVars == <<lock, sending, ssl, bio, slice, eof, wire, numbered>>

Aside ==
  /\ UNCHANGED holdVars /\ PcHeld
  /\ UNCHANGED buffer \/ connLost'
  /\ sockOpen' => sockOpen

LEMMA HeldMoves ==
  ASSUME NEW t \in Tasks, NEW l, PcMove(t, l), tpc[t] \notin HoldPCs, l \notin HoldPCs PROVE PcHeld
  BY DEF PcMove, PcHeld

LEMMA QuietHeld == PcQuiet => PcHeld
  BY DEF PcQuiet, PcHeld, WritePCs, HoldPCs

LEMMA PcSameHeld == UNCHANGED tpc => PcHeld
  BY DEF PcHeld

LEMMA TaskReadsAside ==
  ASSUME TaskTyped, NEW t \in Tasks, TaskReads(t) PROVE Aside
<1>1. PcHeld
  BY ReadsQuiet, QuietHeld
<1> USE DEF holdVars, outVars, tlsVars
<1>2. UNCHANGED <<holdVars, buffer, sockOpen>>
  <2>1. CASE Suspend(t) \/ Requeue(t) \/ Drain(t) \/ DrainHelper(t) \/ DrainWoken(t) \/ ReadStart(t)
    BY <2>1 DEF Suspend, Requeue, Drain, DrainHelper, DrainWoken, ReadStart
  <2>2. CASE ReadLook(t) \/ WaitPaused(t) \/ WaitForData(t) \/ WaitWoken(t) \/ ReadCopy(t)
             \/ ReadDelete(t) \/ MaybeResume(t)
    BY <2>2 DEF ReadLook, WaitPaused, WaitForData, WaitWoken, ReadCopy, ReadDelete, MaybeResume
  <2>3. CASE Resume(t)
    BY <2>3 DEF Resume, ResumeReading
  <2> QED
    BY <2>1, <2>2, <2>3 DEF TaskReads
<1> QED
  BY <1>1, <1>2 DEF Aside

LEMMA OtherTaskAside ==
  ASSUME TaskTyped, NEW t \in Tasks, Write(t) \/ CloseTransport(t) \/ AbortTransport(t) PROVE Aside
<1> USE DEF holdVars, outVars, tlsVars
<1>1. PcHeld
  <2>1. tpc[t] = "op" /\ (GoTo(t, "enter") \/ Return(t) \/ Raise(t))
    BY DEF Write, CloseTransport, AbortTransport, Runs
  <2>2. PcMove(t, "enter") \/ PcMove(t, "op")
    BY <2>1, GoToMoves, ReturnMoves
  <2> QED
    BY <2>1, <2>2, HeldMoves DEF HoldPCs
<1>2. CASE Write(t)
  BY <1>1, <1>2 DEF Write, Aside
<1>3. CASE CloseTransport(t)
  BY <1>1, <1>3, CloseStays DEF CloseTransport, Aside
<1>4. CASE AbortTransport(t)
  <2>1. Forced /\ UNCHANGED holdVars
    BY <1>4 DEF AbortTransport
  <2>2. connLost'
    BY <2>1 DEF ForceClose
  <2> QED
    BY <1>1, <2>1, <2>2, ForceStays DEF Aside
<1> QED
  BY <1>2, <1>3, <1>4

LEMMA OtherAside ==
  ASSUME \/ \E r \in Readers : ReadStep(r)
         \/ Startup \/ Lost \/ CloseUnwrapped \/ HandshakeComplete \/ ShutdownComplete \/ SslTimeout
         \/ HandshakeError \/ DeferExpires \/ Accept \/ GiveUp \/ PeerSends \/ PeerEnds
         \/ ServerStep
         \/ UNCHANGED connectionVars
  PROVE  Aside
<1> USE PcSameHeld DEF holdVars, outVars, tlsVars, taskVars
<1>1. ASSUME NEW r \in Readers, ReadCheck(r) PROVE Aside
  BY <1>1 DEF ReadCheck, Aside
<1>2. ASSUME NEW r \in Readers, ReadRun(r) PROVE Aside
  <2>1. UNCHANGED holdVars /\ UNCHANGED tpc
    BY <1>2 DEF ReadRun
  <2>2. UNCHANGED buffer \/ Forced
    BY <1>2 DEF ReadRun, HandshakeFails
  <2>3. Forced => connLost'
    BY DEF ForceClose
  <2> QED
    BY <1>2, <2>1, <2>2, <2>3, ReadRunStays DEF Aside
<1>3. CASE SslTimeout \/ HandshakeError
  <2>1. UNCHANGED holdVars /\ UNCHANGED tpc /\ Forced
    BY <1>3 DEF SslTimeout, HandshakeError,
     HandshakeFails, HandshakeTimeout, ShutdownTimeout
  <2>2. connLost'
    BY <2>1 DEF ForceClose
  <2> QED
    BY <2>1, <2>2, ForceStays DEF Aside
<1>4. CASE Startup \/ HandshakeComplete \/ ShutdownComplete
  <2>1. UNCHANGED <<holdVars, buffer, tpc, sockOpen>>
    BY <1>4 DEF Startup, HandshakeComplete, ShutdownComplete
  <2> QED
    BY <2>1 DEF Aside
<1>5. CASE Lost
  <2>1. UNCHANGED <<holdVars, buffer, tpc>> /\ sockOpen' = FALSE
    BY <1>5 DEF Lost, CallConnectionLost
  <2> QED
    BY <2>1 DEF Aside
<1>6. CASE CloseUnwrapped \/ GiveUp
  BY <1>6, CloseStays DEF CloseUnwrapped, GiveUp, Aside
<1>7. CASE DeferExpires \/ Accept \/ PeerSends
  BY <1>7 DEF DeferExpires, Accept, PeerSends, Aside
<1>8. CASE PeerEnds \/ ServerStep \/ UNCHANGED connectionVars
  BY <1>8 DEF PeerEnds, ServerStep, connectionVars, Aside
<1> QED
  BY <1>1, <1>2, <1>3, <1>4, <1>5, <1>6, <1>7, <1>8 DEF ReadStep


-----------------------------------------------------------------------------
\* Who holds the lock, and for which part of a write.
LockSafe ==
  /\ lock = "wready" => sending
  /\ lock = "ssl" <=> ssl = "read"
  /\ \A t \in Tasks : lock = t <=> tpc[t] \in HoldPCs
  /\ bio # <<>> => \E t \in Tasks : tpc[t] = "outgoing"
  /\ ~sending => slice["wready"] = <<>>

LEMMA SenderNames ==
  /\ Nobody \notin Tasks /\ Nobody # "wready" /\ Nobody # "ssl"
  /\ \A t \in Tasks : t \in Senders /\ t # "wready" /\ t # "ssl"
  /\ "wready" \in Senders /\ "ssl" \in Senders
  BY ConnNoneAssumption DEF Senders

LEMMA FreeLock ==
  ASSUME LockSafe, lock = Nobody
  PROVE  bio = <<>> /\ ssl # "read" /\ \A t \in Tasks : tpc[t] \notin HoldPCs
  BY SenderNames DEF LockSafe, HoldPCs

LEMMA TaskLock ==
  ASSUME LockSafe, NEW t \in Tasks, lock = t
  PROVE  ssl # "read" /\ tpc[t] \in HoldPCs /\ \A u \in Tasks \ {t} : tpc[u] \notin HoldPCs
  BY SenderNames DEF LockSafe

LEMMA AsideLock == ASSUME LockSafe, Aside PROVE LockSafe'
<1>1. UNCHANGED <<lock, sending, ssl, bio, slice>>
  BY DEF Aside, holdVars
<1>2. \A t \in Tasks : /\ tpc'[t] \in HoldPCs <=> tpc[t] \in HoldPCs
                       /\ tpc'[t] = "outgoing" <=> tpc[t] = "outgoing"
  BY DEF Aside, PcHeld, HoldPCs
<1> QED
  BY <1>1, <1>2 DEF LockSafe

\* The steps of a write.
EnterPlain(t) ==
  /\ lock = Nobody /\ lock' = t /\ eof = 0 /\ numbered' = numbered + 2 /\ PcMove(t, "raw")
  /\ slice' = [slice EXCEPT ![t] = <<numbered + 1, numbered + 2>>]
  /\ UNCHANGED <<sending, ssl, bio, eof, wire, buffer, connLost, sockOpen>>

EnterSecure(t) ==
  /\ lock = Nobody /\ lock' = t /\ eof = 0 /\ PcMove(t, "outgoing")
  /\ \/ numbered' = numbered + 2 /\ bio' = bio \o <<numbered + 1, numbered + 2>>
     \/ numbered' = numbered + 1 /\ bio' = Append(bio, numbered + 1)
  /\ UNCHANGED <<sending, ssl, slice, eof, wire, buffer, connLost, sockOpen>>

TakeOut(t) ==
  /\ lock = t /\ tpc[t] = "outgoing" /\ PcMove(t, "raw")
  /\ slice' = [slice EXCEPT ![t] = bio] /\ bio' = <<>>
  /\ UNCHANGED <<lock, sending, ssl, eof, wire, buffer, connLost, sockOpen, numbered>>

PutRaw(t) ==
  /\ lock = t /\ tpc[t] = "raw" /\ PcMove(t, "op") /\ lock' = Nobody /\ RawWrite(t)
  /\ UNCHANGED <<sending, ssl, bio, eof, numbered>>

Fin(t) ==
  /\ lock = Nobody /\ ~closing /\ eof = 0 /\ eof' = numbered + 1 /\ numbered' = numbered + 1
  /\ PcHeld
  /\ UNCHANGED wire \/ (buffer = <<>> /\ wire' = Append(wire, numbered + 1))
  /\ UNCHANGED <<lock, sending, ssl, slice, bio, buffer, connLost, sockOpen>>

SslTakes ==
  /\ lock = Nobody /\ lock' = "ssl" /\ ssl' = "read" /\ eof = 0 /\ numbered' = numbered + 1
  /\ slice' = [slice EXCEPT !["ssl"] = bio \o <<numbered + 1>>] /\ bio' = <<>>
  /\ UNCHANGED <<sending, eof, wire, buffer, connLost, sockOpen, tpc>>

SslPuts ==
  /\ lock = "ssl" /\ ssl = "read" /\ ssl' = "idle" /\ lock' = Nobody /\ RawWrite("ssl")
  /\ UNCHANGED <<sending, bio, eof, numbered, tpc>>

ReadySends ==
  /\ writing /\ ~sending /\ lock = Nobody /\ lock' = "wready" /\ WriteSend
  /\ UNCHANGED <<bio, eof, numbered, tpc>>

WriteMove ==
  \/ Aside
  \/ \E t \in Tasks : EnterPlain(t) \/ EnterSecure(t) \/ TakeOut(t) \/ PutRaw(t) \/ Fin(t)
  \/ SslTakes \/ SslPuts \/ ReadySends \/ WritePut

LEMMA WriteEnterMove ==
  ASSUME LinkTyped, TaskTyped, ModeSafe, NEW t \in Tasks, WriteEnter(t) PROVE WriteMove
<1>0. lock = Nobody /\ tpc[t] = "enter" /\ UNCHANGED <<sending, ssl, eof, wire, buffer, connLost,
                                                       sockOpen>>
  BY DEF WriteEnter
<1>1. \/ (Raise(t) \/ Return(t)) /\ UNCHANGED <<lock, numbered, slice, bio>>
      \/ /\ lock' = t /\ numbered' = numbered + 2 /\ eof = 0
         /\ \/ slice' = [slice EXCEPT ![t] = <<numbered + 1, numbered + 2>>] /\ GoTo(t, "raw")
               /\ UNCHANGED bio
            \/ bio' = bio \o <<numbered + 1, numbered + 2>> /\ GoTo(t, "outgoing") /\ UNCHANGED slice
  BY DEF WriteEnter
<1>2. CASE (Raise(t) \/ Return(t)) /\ UNCHANGED <<lock, numbered, slice, bio>>
  <2>1. PcMove(t, "op")
    BY <1>2, ReturnMoves
  <2>2. PcHeld
    BY <1>0, <2>1, HeldMoves DEF HoldPCs
  <2> QED
    BY <1>0, <1>2, <2>2 DEF WriteMove, Aside, holdVars
<1>3. CASE /\ lock' = t /\ numbered' = numbered + 2 /\ eof = 0
           /\ slice' = [slice EXCEPT ![t] = <<numbered + 1, numbered + 2>>] /\ GoTo(t, "raw")
           /\ UNCHANGED bio
  <2>1. EnterPlain(t)
    BY <1>0, <1>3, GoToMoves DEF EnterPlain
  <2> QED
    BY <2>1 DEF WriteMove
<1>4. CASE /\ lock' = t /\ numbered' = numbered + 2 /\ eof = 0
           /\ bio' = bio \o <<numbered + 1, numbered + 2>> /\ GoTo(t, "outgoing") /\ UNCHANGED slice
  <2>1. EnterSecure(t)
    BY <1>0, <1>4, GoToMoves DEF EnterSecure
  <2> QED
    BY <2>1 DEF WriteMove
<1> QED
  BY <1>1, <1>2, <1>3, <1>4

LEMMA WriteEofMove ==
  ASSUME LinkTyped, TaskTyped, ModeSafe, NEW t \in Tasks, WriteEof(t) PROVE WriteMove
<1>0. /\ lock = Nobody /\ tpc[t] = "enter"
      /\ UNCHANGED <<lock, buffer, slice, bio, sending, ssl, connLost, sockOpen>>
      /\ Return(t) \/ Raise(t)
  BY DEF WriteEof, tlsVars
<1>1. \/ UNCHANGED <<eof, numbered, wire>>
      \/ /\ ~closing /\ eof = 0 /\ eof' = numbered + 1 /\ numbered' = numbered + 1
         /\ UNCHANGED wire \/ (buffer = <<>> /\ wire' = Append(wire, numbered + 1))
  BY DEF WriteEof
<1>2. PcHeld
  <2>1. PcMove(t, "op")
    BY <1>0, ReturnMoves
  <2> QED
    BY <1>0, <2>1, HeldMoves DEF HoldPCs
<1>3. CASE UNCHANGED <<eof, numbered, wire>>
  BY <1>0, <1>2, <1>3 DEF WriteMove, Aside, holdVars
<1>4. CASE /\ ~closing /\ eof = 0 /\ eof' = numbered + 1 /\ numbered' = numbered + 1
           /\ UNCHANGED wire \/ (buffer = <<>> /\ wire' = Append(wire, numbered + 1))
  <2>1. Fin(t)
    BY <1>0, <1>2, <1>4 DEF Fin
  <2> QED
    BY <2>1 DEF WriteMove
<1> QED
  BY <1>1, <1>3, <1>4

LEMMA CloseTlsMove ==
  ASSUME LinkTyped, TaskTyped, ModeSafe, NEW t \in Tasks, CloseTls(t) PROVE WriteMove
<1>0. /\ lock = Nobody /\ tpc[t] = "op" /\ Encrypted
      /\ UNCHANGED <<buffer, eof, wire, slice, sending, ssl>>
  BY DEF CloseTls, Runs
<1>1. \/ Return(t) /\ UNCHANGED <<lock, linkVars, bio, numbered>>
      \/ /\ UNCHANGED linkVars \/ FeedData(incoming)
         /\ numbered' = numbered + 1 /\ bio' = Append(bio, numbered + 1) /\ lock' = t
         /\ GoTo(t, "outgoing")
  <2> HIDE DEF linkVars
  <2> QED
    BY DEF CloseTls
<1>2. CASE Return(t) /\ UNCHANGED <<lock, linkVars, bio, numbered>>
  <2>1. PcMove(t, "op")
    BY <1>2, ReturnMoves
  <2>2. PcHeld
    BY <1>0, <2>1, HeldMoves DEF HoldPCs
  <2> QED
    BY <1>0, <1>2, <2>2 DEF WriteMove, Aside, holdVars
<1>3. CASE /\ UNCHANGED linkVars \/ FeedData(incoming)
           /\ numbered' = numbered + 1 /\ bio' = Append(bio, numbered + 1) /\ lock' = t
           /\ GoTo(t, "outgoing")
  <2>1. UNCHANGED <<connLost, sockOpen>>
    BY <1>3 DEF FeedData
  <2>2. eof = 0
    BY <1>0 DEF ModeSafe, Encrypted, LinkTyped
  <2>3. PcMove(t, "outgoing")
    BY <1>3, GoToMoves
  <2>4. EnterSecure(t)
    BY <1>0, <1>3, <2>1, <2>2, <2>3 DEF EnterSecure
  <2> QED
    BY <2>4 DEF WriteMove
<1> QED
  BY <1>1, <1>2, <1>3

LEMMA DoReadMove ==
  ASSUME LinkTyped, TaskTyped, ModeSafe, DoRead PROVE WriteMove
<1>0. /\ lock = Nobody /\ resume /\ UNCHANGED <<buffer, eof, wire, sending, tpc>>
      /\ UNCHANGED linkVars \/ FeedData(incoming)
  BY DEF DoRead
<1>1. \/ /\ ssl' = "read" /\ lock' = "ssl" /\ numbered' = numbered + 1 /\ bio' = <<>>
         /\ slice' = [slice EXCEPT !["ssl"] = bio \o <<numbered + 1>>]
      \/ UNCHANGED <<ssl, lock, numbered, slice, bio>>
  BY DEF DoRead
<1>2. UNCHANGED <<connLost, sockOpen>>
  BY <1>0 DEF FeedData
<1>3. eof = 0
  BY <1>0 DEF ModeSafe, LinkTyped
<1>4. CASE UNCHANGED <<ssl, lock, numbered, slice, bio>>
  BY <1>0, <1>2, <1>4, PcSameHeld DEF WriteMove, Aside, holdVars
<1>5. CASE /\ ssl' = "read" /\ lock' = "ssl" /\ numbered' = numbered + 1 /\ bio' = <<>>
           /\ slice' = [slice EXCEPT !["ssl"] = bio \o <<numbered + 1>>]
  <2>1. SslTakes
    BY <1>0, <1>2, <1>3, <1>5 DEF SslTakes
  <2> QED
    BY <2>1 DEF WriteMove
<1> QED
  BY <1>1, <1>4, <1>5

LEMMA WriteMoves ==
  ASSUME LinkTyped, TaskTyped, NoUpgrade, ModeSafe, [ConnNext]_connectionVars PROVE WriteMove
<1>1. ASSUME NEW t \in Tasks, TaskStep(t) PROVE WriteMove
  <2>1. CASE TaskReads(t) \/ Write(t) \/ CloseTransport(t) \/ AbortTransport(t)
    BY <2>1, TaskReadsAside, OtherTaskAside DEF WriteMove
  <2>2. CASE WriteEnter(t) \/ WriteEof(t) \/ CloseTls(t)
    BY <2>2, WriteEnterMove, WriteEofMove, CloseTlsMove
  <2>3. CASE WriteOutgoing(t)
    <3>1. TakeOut(t)
      BY <2>3, GoToMoves DEF WriteOutgoing, TakeOut
    <3> QED
      BY <3>1 DEF WriteMove
  <2>4. CASE WriteRaw(t)
    <3>1. PutRaw(t)
      BY <2>4, ReturnMoves DEF WriteRaw, PutRaw, tlsVars
    <3> QED
      BY <3>1 DEF WriteMove
  <2>5. ~StartTls(t) /\ ~StartTlsEnd(t)
    BY NoStartTls DEF StartTls, StartTlsEnd, Runs
  <2> QED
    BY <1>1, <2>1, <2>2, <2>3, <2>4, <2>5 DEF TaskStep, TaskReads
<1>2. CASE \/ \E r \in Readers : ReadStep(r)
           \/ Startup \/ Lost \/ CloseUnwrapped \/ HandshakeComplete \/ ShutdownComplete \/ SslTimeout
         \/ HandshakeError \/ DeferExpires \/ Accept \/ GiveUp \/ PeerSends \/ PeerEnds
         \/ ServerStep
           \/ UNCHANGED connectionVars
  BY <1>2, OtherAside DEF WriteMove
<1>3. CASE WriteReady
  <2>1. CASE peer = "reset"
    <3>1. Forced /\ UNCHANGED holdVars /\ UNCHANGED tpc
      BY <1>3, <2>1 DEF WriteReady, holdVars, tlsVars, taskVars
    <3>2. connLost'
      BY <3>1 DEF ForceClose
    <3> QED
      BY <3>1, <3>2, ForceStays, PcSameHeld DEF Aside, WriteMove
  <2>2. CASE peer # "reset"
    <3>1. ReadySends
      BY <1>3, <2>2 DEF WriteReady, ReadySends, tlsVars, taskVars
    <3> QED
      BY <3>1 DEF WriteMove
  <2> QED
    BY <2>1, <2>2
<1>4. CASE WritePut
  BY <1>4 DEF WriteMove
<1>5. CASE SslWrite
  <2>1. SslPuts
    BY <1>5 DEF SslWrite, SslPuts, ModeSafe, tlsVars, taskVars
  <2> QED
    BY <2>1 DEF WriteMove
<1>6. ~Begin /\ ~BeginResume
  BY DEF Begin, BeginResume, ModeSafe
<1>7. CASE DoRead
  BY <1>7, DoReadMove
<1> QED
  BY <1>1, <1>2, <1>3, <1>4, <1>5, <1>6, <1>7 DEF ConnNext, WriteStep, HandleStep


LEMMA SliceKept ==
  ASSUME OutTyped, NEW s \in Senders, s # "wready", NEW q, slice' = [slice EXCEPT ![s] = q]
  PROVE  slice'["wready"] = slice["wready"] /\ slice'[s] = q
  BY SenderNames DEF OutTyped

LEMMA RawSlice == ASSUME NEW s, RawWrite(s) PROVE slice' = [slice EXCEPT ![s] = <<>>]
  BY DEF RawWrite

LEMMA LockStep ==
  ASSUME LinkInv, OutTyped, ModeSafe, LockSafe, WriteMove PROVE LockSafe'
<1> USE DEF HoldPCs
<1>1. CASE Aside
  BY <1>1, AsideLock
<1>2. ASSUME NEW t \in Tasks, EnterPlain(t) PROVE LockSafe'
  <2>1. slice'["wready"] = slice["wready"]
    BY <1>2, SenderNames, SliceKept DEF EnterPlain
  <2>2. bio = <<>> /\ ssl # "read" /\ \A u \in Tasks : tpc[u] \notin HoldPCs
    BY <1>2, FreeLock DEF EnterPlain
  <2>3. lock' = t /\ UNCHANGED <<sending, ssl, bio>> /\ PcMove(t, "raw")
    BY <1>2 DEF EnterPlain
  <2> QED
    BY <2>1, <2>2, <2>3, SenderNames DEF LockSafe, PcMove
<1>3. ASSUME NEW t \in Tasks, EnterSecure(t) PROVE LockSafe'
  <2>1. bio = <<>> /\ ssl # "read" /\ \A u \in Tasks : tpc[u] \notin HoldPCs
    BY <1>3, FreeLock DEF EnterSecure
  <2>2. lock' = t /\ UNCHANGED <<sending, ssl, slice>> /\ PcMove(t, "outgoing")
    BY <1>3 DEF EnterSecure
  <2> QED
    BY <2>1, <2>2, SenderNames DEF LockSafe, PcMove
<1>4. ASSUME NEW t \in Tasks, TakeOut(t) PROVE LockSafe'
  <2>1. slice'["wready"] = slice["wready"]
    BY <1>4, SenderNames, SliceKept DEF TakeOut
  <2>2. ssl # "read" /\ \A u \in Tasks \ {t} : tpc[u] \notin HoldPCs
    BY <1>4, TaskLock DEF TakeOut
  <2>3. lock = t /\ UNCHANGED <<lock, sending, ssl>> /\ bio' = <<>> /\ PcMove(t, "raw")
    BY <1>4 DEF TakeOut
  <2> QED
    BY <2>1, <2>2, <2>3, SenderNames DEF LockSafe, PcMove
<1>5. ASSUME NEW t \in Tasks, PutRaw(t) PROVE LockSafe'
  <2>0. RawWrite(t)
    BY <1>5 DEF PutRaw
  <2>1. slice'["wready"] = slice["wready"]
    BY <2>0, SenderNames, RawSlice, SliceKept
  <2>2. ssl # "read" /\ \A u \in Tasks \ {t} : tpc[u] \notin HoldPCs
    BY <1>5, TaskLock DEF PutRaw
  <2>3. lock' = Nobody /\ UNCHANGED <<sending, ssl, bio>> /\ PcMove(t, "op") /\ tpc[t] = "raw"
    BY <1>5 DEF PutRaw
  <2>4. bio = <<>>
    BY <2>2, <2>3 DEF LockSafe
  <2> QED
    BY <2>1, <2>2, <2>3, <2>4, SenderNames DEF LockSafe, PcMove
<1>6. ASSUME NEW t \in Tasks, Fin(t) PROVE LockSafe'
  <2>1. UNCHANGED <<lock, sending, ssl, bio, slice>> /\ PcHeld
    BY <1>6 DEF Fin
  <2>2. \A u \in Tasks : /\ tpc'[u] \in HoldPCs <=> tpc[u] \in HoldPCs
                         /\ tpc'[u] = "outgoing" <=> tpc[u] = "outgoing"
    BY <2>1 DEF PcHeld
  <2> QED
    BY <2>1, <2>2 DEF LockSafe
<1>7. CASE SslTakes
  <2>1. slice'["wready"] = slice["wready"]
    BY <1>7, SenderNames, SliceKept DEF SslTakes
  <2>2. \A u \in Tasks : tpc[u] \notin HoldPCs
    BY <1>7, FreeLock DEF SslTakes
  <2>3. lock' = "ssl" /\ ssl' = "read" /\ bio' = <<>> /\ UNCHANGED <<sending, tpc>>
    BY <1>7 DEF SslTakes
  <2> QED
    BY <2>1, <2>2, <2>3, SenderNames DEF LockSafe
<1>8. CASE SslPuts
  <2>0. RawWrite("ssl")
    BY <1>8 DEF SslPuts
  <2>1. slice'["wready"] = slice["wready"]
    BY <2>0, SenderNames, RawSlice, SliceKept
  <2>2. \A u \in Tasks : tpc[u] \notin HoldPCs
    BY <1>8, SenderNames DEF SslPuts, LockSafe
  <2>3. lock' = Nobody /\ ssl' = "idle" /\ UNCHANGED <<sending, bio, tpc>>
    BY <1>8 DEF SslPuts
  <2> QED
    BY <2>1, <2>2, <2>3, SenderNames DEF LockSafe
<1>9. CASE ReadySends
  <2>1. bio = <<>> /\ ssl # "read" /\ \A u \in Tasks : tpc[u] \notin HoldPCs
    BY <1>9, FreeLock DEF ReadySends
  <2>2. lock' = "wready" /\ sending' = TRUE /\ UNCHANGED <<ssl, bio, tpc>>
    BY <1>9 DEF ReadySends, WriteSend
  <2> QED
    BY <2>1, <2>2, SenderNames DEF LockSafe
<1>10. CASE WritePut
  <2>1. sending /\ sending' = FALSE /\ lock' = Nobody /\ UNCHANGED <<ssl, bio, tpc>>
    BY <1>10 DEF WritePut, tlsVars
  <2>2. lock = "wready"
    BY <2>1 DEF LinkInv, LinkSafe
  <2>3. slice'["wready"] = <<>>
    <3>1. slice' = [slice EXCEPT !["wready"] = <<>>]
      BY <1>10 DEF WritePut
    <3> QED
      BY <3>1, SenderNames DEF OutTyped
  <2>4. ssl # "read" /\ \A u \in Tasks : tpc[u] \notin HoldPCs
    BY <2>2, SenderNames DEF LockSafe
  <2> QED
    BY <2>1, <2>3, <2>4, SenderNames DEF LockSafe
<1> QED
  BY <1>1, <1>2, <1>3, <1>4, <1>5, <1>6, <1>7, <1>8, <1>9, <1>10 DEF WriteMove

-----------------------------------------------------------------------------
\* What is numbered, and not sent: the chunk _write_ready has in hand, the buffer, what the
\* holder of the lock is about to write, the FIN.
Numbers(n) ==
  /\ lock = "ssl" => eof = 0 /\ RunOf(slice["ssl"], n, numbered)
  /\ \A t \in Tasks : tpc[t] = "raw" => eof = 0 /\ RunOf(slice[t], n, numbered)
  /\ \A t \in Tasks : tpc[t] = "outgoing" => eof = 0 /\ RunOf(bio, n, numbered)
  /\ lock \in {"wready", Nobody} =>
       \/ eof = 0 /\ n = numbered
       \/ eof = n + 1 /\ eof = numbered
       \/ eof = n /\ eof = numbered /\ ~sending /\ buffer = <<>>

Queued ==
  \E m, n \in Nat :
    PartOf(slice["wready"], Len(wire), m) /\ ChainOf(buffer, m, n) /\ Numbers(n)

Live == ~connLost /\ sockOpen

WireSafe == Ordered(wire) /\ (Live => Queued)

LEMMA OrderedAppend ==
  ASSUME NEW w \in Seq(Nat), Ordered(w), NEW c \in Nat, c = Len(w) + 1
  PROVE  Ordered(Append(w, c)) /\ Len(Append(w, c)) = c
<1>1. /\ Len(w) \in Nat /\ Len(Append(w, c)) = Len(w) + 1
      /\ DOMAIN Append(w, c) = 1..(Len(w) + 1) /\ DOMAIN w = 1..Len(w)
      /\ Append(w, c)[Len(w) + 1] = c
      /\ \A i \in 1..Len(w) : Append(w, c)[i] = w[i]
  BY AppendProperties
<1>2. ASSUME NEW i \in 1..(Len(w) + 1) PROVE Append(w, c)[i] = i
  <2>1. CASE i \in 1..Len(w)
    BY <1>1, <2>1 DEF Ordered
  <2>2. CASE i = Len(w) + 1
    BY <1>1, <2>2
  <2>3. i \in 1..Len(w) \/ i = Len(w) + 1
    BY <1>1
  <2> QED
    BY <2>1, <2>2, <2>3
<1> QED
  BY <1>1, <1>2 DEF Ordered

\* With nothing in hand the buffer continues what is sent.
LEMMA BufferNext ==
  ASSUME OutTyped, LockSafe, ~sending, NEW m \in Nat, PartOf(slice["wready"], Len(wire), m)
  PROVE  m = Len(wire)
<1>1. slice["wready"] = <<>>
  BY DEF LockSafe
<1>2. Len(<<>>) = 0 /\ Len(wire) \in Nat
  BY DEF OutTyped
<1> QED
  BY <1>1, <1>2 DEF PartOf

LEMMA NothingInHand == ASSUME NEW a \in Nat PROVE PartOf(<<>>, a, a)
  BY DEF PartOf

\* Nothing in hand, everything that is numbered in the buffer.
LEMMA QueuedFrom ==
  ASSUME OutTyped', LockSafe', ~sending', lock' = Nobody, eof' = 0,
         ChainOf(buffer, Len(wire), numbered)'
  PROVE  Queued'
<1>1. slice'["wready"] = <<>> /\ Len(wire)' \in Nat /\ numbered' \in Nat
  BY DEF LockSafe, OutTyped
<1>2. \A t \in Tasks : tpc'[t] # "raw" /\ tpc'[t] # "outgoing"
  BY SenderNames DEF LockSafe, HoldPCs
<1>3. Numbers(numbered)'
  BY <1>2, SenderNames DEF Numbers
<1>4. PartOf(slice["wready"], Len(wire), Len(wire))'
  BY <1>1, NothingInHand
<1> QED
  BY <1>1, <1>3, <1>4 DEF Queued


LEMMA AsideWire == ASSUME WireSafe, Aside, connLost => connLost' PROVE WireSafe'
<1>1. /\ UNCHANGED <<lock, sending, slice, bio, eof, wire, numbered>>
      /\ UNCHANGED buffer \/ connLost'
      /\ sockOpen' => sockOpen
  BY DEF Aside, holdVars
<1>2. \A t \in Tasks : /\ tpc'[t] = "raw" => tpc[t] = "raw"
                       /\ tpc'[t] = "outgoing" => tpc[t] = "outgoing"
  BY DEF Aside, PcHeld, HoldPCs
<1>3. ASSUME Live' PROVE Queued'
  <2>1. Live /\ UNCHANGED buffer
    BY <1>1, <1>3 DEF Live
  <2>2. PICK m, n \in Nat :
          PartOf(slice["wready"], Len(wire), m) /\ ChainOf(buffer, m, n) /\ Numbers(n)
    BY <2>1 DEF WireSafe, Queued
  <2>3. Numbers(n)'
    BY <1>1, <1>2, <2>1, <2>2 DEF Numbers
  <2>4. PartOf(slice["wready"], Len(wire), m)' /\ ChainOf(buffer, m, n)'
    BY <1>1, <2>1, <2>2
  <2> QED
    BY <2>3, <2>4 DEF Queued
<1> QED
  BY <1>1, <1>3 DEF WireSafe

LEMMA UnitsRun ==
  ASSUME NEW n \in Nat PROVE RunOf(<<n + 1, n + 2>>, n, n + 2) /\ RunOf(<<n + 1>>, n, n + 1)
<1>1. Len(<<n + 1, n + 2>>) = 2 /\ <<n + 1, n + 2>>[1] = n + 1 /\ <<n + 1, n + 2>>[2] = n + 2
  OBVIOUS
<1>2. Len(<<n + 1>>) = 1 /\ <<n + 1>>[1] = n + 1
  OBVIOUS
<1>3. (\A j \in 1..2 : j = 1 \/ j = 2) /\ (\A j \in 1..1 : j = 1)
  OBVIOUS
<1>4. \A j \in 1..2 : <<n + 1, n + 2>>[j] = n + j
  BY <1>1, <1>3
<1>5. \A j \in 1..1 : <<n + 1>>[j] = n + j
  BY <1>2, <1>3
<1>6. n < n + 2 /\ n <= n + 2 /\ (n + 2) - n = 2 /\ n < n + 1 /\ n <= n + 1 /\ (n + 1) - n = 1
  OBVIOUS
<1> QED
  BY <1>1, <1>2, <1>4, <1>5, <1>6 DEF RunOf, PartOf

\* A holder of the lock leaves what is in the buffer alone, until it puts its own there.
LEMMA HolderWire ==
  ASSUME OutTyped, OutTyped', LockSafe, LockSafe', WireSafe, UNCHANGED <<sending, wire, buffer,
                                                                         eof, connLost, sockOpen>>,
         lock = Nobody, lock' \notin {"wready", Nobody}, eof = 0, slice'["wready"] = slice["wready"],
         lock' = "ssl" => RunOf(slice'["ssl"], numbered, numbered'),
         \A t \in Tasks : tpc'[t] = "raw" => RunOf(slice'[t], numbered, numbered'),
         \A t \in Tasks : tpc'[t] = "outgoing" => RunOf(bio', numbered, numbered')
  PROVE  WireSafe'
<1>1. ASSUME Live' PROVE Queued'
  <2>1. Live
    BY <1>1 DEF Live
  <2>2. PICK m, n \in Nat :
          PartOf(slice["wready"], Len(wire), m) /\ ChainOf(buffer, m, n) /\ Numbers(n)
    BY <2>1 DEF WireSafe, Queued
  <2>3. n = numbered
    BY <2>2 DEF Numbers
  <2>4. Numbers(n)'
    BY <2>3 DEF Numbers
  <2>5. PartOf(slice["wready"], Len(wire), m)' /\ ChainOf(buffer, m, n)'
    BY <2>2
  <2> QED
    BY <2>4, <2>5 DEF Queued
<1> QED
  BY <1>1 DEF WireSafe

\* The raw write of a run that comes next.
LEMMA RawSend ==
  ASSUME OutTyped, NEW s \in Senders, RawWrite(s), Live, peer # "reset", Ordered(wire),
         NEW n \in Nat, ChainOf(buffer, Len(wire), n), RunOf(slice[s], n, numbered),
         UNCHANGED numbered
  PROVE  Ordered(wire)' /\ ChainOf(buffer, Len(wire), numbered)'
<1>0. /\ slice[s] \in Seq(Nat) /\ wire \in Seq(Nat) /\ buffer \in Seq(Seq(Nat)) /\ numbered \in Nat
      /\ Len(wire) \in Nat /\ Len(slice[s]) \in Nat
  BY DEF OutTyped
<1>1. CASE buffer # <<>>
  <2>1. buffer' = Append(buffer, slice[s]) /\ wire' = wire
    BY <1>1 DEF RawWrite, Live
  <2>2. ChainOf(Append(buffer, slice[s]), Len(wire), numbered)
    BY <1>0, ChainAppend
  <2> QED
    BY <2>1, <2>2
<1>2. CASE buffer = <<>>
  <2>1. Len(wire) = n
    BY <1>0, <1>2, ChainNothing
  <2>2. PICK k \in 0..Len(slice[s]) :
          /\ wire' = wire \o SubSeq(slice[s], 1, k)
          /\ buffer' = IF k = Len(slice[s]) THEN <<>> ELSE <<Left(slice[s], k)>>
    BY <1>2 DEF RawWrite, Live, Send
  <2>3. PartOf(slice[s], Len(wire), numbered)
    BY <2>1 DEF RunOf
  <2>4. /\ Ordered(wire \o SubSeq(slice[s], 1, k))
        /\ Len(wire \o SubSeq(slice[s], 1, k)) = Len(wire) + k
        /\ PartOf(Left(slice[s], k), Len(wire) + k, numbered)
    BY <1>0, <2>3, SendRun
  <2>5. Len(wire) + k \in Nat /\ Len(slice[s]) = numbered - Len(wire)
    BY <1>0, <2>3 DEF PartOf
  <2>6. CASE k = Len(slice[s])
    <3>1. Len(wire) + k = numbered
      BY <1>0, <2>5, <2>6
    <3>2. ChainOf(<<>>, Len(wire) + k, numbered)
      BY <1>0, <2>5, <3>1, ChainEmpty
    <3> QED
      BY <2>2, <2>4, <2>6, <3>2
  <2>7. CASE k # Len(slice[s])
    <3>0. k \in Nat /\ k < Len(slice[s])
      BY <1>0, <2>7
    <3>1. Len(wire) + k < numbered
      <4> HIDE <2>7
      <4> QED
        BY <1>0, <2>5, <3>0
    <3>2. Left(slice[s], k) \in Seq(Nat)
      BY <1>0, PartsTyped
    <3>3. ChainOf(<<Left(slice[s], k)>>, Len(wire) + k, numbered)
      BY <1>0, <2>4, <2>5, <3>1, <3>2, ChainOne DEF RunOf
    <3> QED
      BY <2>2, <2>4, <2>7, <3>3
  <2> QED
    BY <2>6, <2>7
<1> QED
  BY <1>1, <1>2

\* ... by whoever holds the lock, which is then free.
LEMMA PutWire ==
  ASSUME LinkInv, OutTyped, OutTyped', LockSafe, LockSafe', WireSafe, NEW s \in Senders,
         RawWrite(s),
         UNCHANGED <<sending, eof, numbered>>, lock' = Nobody, lock # "wready",
         \A n \in Nat : Live /\ Numbers(n) => eof = 0 /\ RunOf(slice[s], n, numbered)
  PROVE  WireSafe'
<1>1. CASE ~Live
  <2>1. UNCHANGED <<linkVars, wire>>
    BY <1>1 DEF RawWrite, Live
  <2> QED
    BY <1>1, <2>1 DEF WireSafe, Live
<1>2. CASE Live /\ peer = "reset"
  <2>1. Forced /\ UNCHANGED wire
    BY <1>2 DEF RawWrite, Live
  <2>2. connLost'
    BY <2>1 DEF ForceClose
  <2> QED
    BY <2>1, <2>2 DEF WireSafe, Live
<1>3. CASE Live /\ peer # "reset"
  <2>1. PICK m, n \in Nat :
          PartOf(slice["wready"], Len(wire), m) /\ ChainOf(buffer, m, n) /\ Numbers(n)
    BY <1>3 DEF WireSafe, Queued
  <2>2. ~sending /\ ~sending'
    BY NotSending
  <2>3. m = Len(wire)
    BY <2>1, <2>2, BufferNext
  <2>4. eof = 0 /\ RunOf(slice[s], n, numbered)
    BY <1>3, <2>1
  <2>5. Ordered(wire)' /\ ChainOf(buffer, Len(wire), numbered)'
    BY <1>3, <2>1, <2>3, <2>4, RawSend DEF WireSafe
  <2>6. Queued'
    BY <2>2, <2>4, <2>5, QueuedFrom
  <2> QED
    BY <2>5, <2>6 DEF WireSafe
<1> QED
  BY <1>1, <1>2, <1>3

LEMMA FinWire ==
  ASSUME LinkInv, ModeSafe, OutTyped, OutTyped', LockSafe, LockSafe', WireSafe, NEW t \in Tasks,
         Fin(t)
  PROVE  WireSafe'
<1>0. /\ lock = Nobody /\ ~closing /\ eof = 0 /\ eof' = numbered + 1 /\ numbered' = numbered + 1
      /\ UNCHANGED <<lock, sending, slice, bio, buffer, connLost, sockOpen>>
  BY DEF Fin
<1>1. ~sending /\ ~sending' /\ \A u \in Tasks : tpc'[u] # "raw" /\ tpc'[u] # "outgoing"
  BY <1>0, NotSending, SenderNames DEF LockSafe, HoldPCs
<1>2. wire \in Seq(Nat) /\ Len(wire) \in Nat /\ numbered \in Nat /\ buffer' = buffer
  BY <1>0 DEF OutTyped
<1>3. Live
  BY <1>0 DEF Live, ModeSafe, LinkInv, LinkSafe
<1>4. ChainOf(buffer, Len(wire), numbered)
  <2>1. PICK m, n \in Nat :
          PartOf(slice["wready"], Len(wire), m) /\ ChainOf(buffer, m, n) /\ Numbers(n)
    BY <1>3 DEF WireSafe, Queued
  <2>2. m = Len(wire)
    BY <1>1, <2>1, BufferNext
  <2>3. n = numbered
    BY <1>0, <2>1 DEF Numbers
  <2> QED
    BY <2>1, <2>2, <2>3
<1>5. slice'["wready"] = <<>> /\ Len(wire)' \in Nat
  BY <1>1 DEF LockSafe, OutTyped
<1>6. PartOf(slice["wready"], Len(wire), Len(wire))'
  BY <1>5, NothingInHand
<1>7. ASSUME NEW n \in Nat, n = numbered \/ (n = numbered + 1 /\ buffer = <<>>),
             ChainOf(buffer, Len(wire), n)'
      PROVE  Queued'
  <2>1. Numbers(n)'
    <3>1. eof' = numbered' /\ (eof' = n + 1 \/ (eof' = n /\ ~sending' /\ buffer' = <<>>))
      BY <1>0, <1>1, <1>2, <1>7
    <3>2. lock' # "ssl"
      BY <1>0, SenderNames
    <3> QED
      BY <1>1, <3>1, <3>2 DEF Numbers
  <2> QED
    BY <1>5, <1>6, <1>7, <2>1 DEF Queued
<1>8. CASE UNCHANGED wire
  <2>1. \A n \in Nat : n = numbered => ChainOf(buffer, Len(wire), n)'
    BY <1>2, <1>4, <1>8
  <2>2. Queued'
    BY <1>2, <1>7, <2>1
  <2> QED
    BY <1>8, <2>2 DEF WireSafe
<1>9. CASE buffer = <<>> /\ wire' = Append(wire, numbered + 1)
  <2>1. Len(wire) = numbered
    BY <1>2, <1>4, <1>9, ChainNothing
  <2>2. Ordered(Append(wire, numbered + 1)) /\ Len(Append(wire, numbered + 1)) = numbered + 1
    BY <1>2, <2>1, OrderedAppend DEF WireSafe
  <2>4. Ordered(wire)'
    BY <1>9, <2>2
  <2>5. Len(wire)' = numbered + 1
    BY <1>9, <2>2
  <2>6. \A n \in Nat : n = numbered + 1 => ChainOf(buffer, Len(wire), n)'
    BY <1>2, <1>9, <2>5, ChainEmpty
  <2>7. Queued'
    BY <1>2, <1>7, <1>9, <2>6
  <2> QED
    BY <2>4, <2>7 DEF WireSafe
<1> QED
  BY <1>8, <1>9 DEF Fin

LEMMA ReadyWire ==
  ASSUME LinkInv, Dead, OutTyped, OutTyped', LockSafe, LockSafe', WireSafe, ReadySends
  PROVE  WireSafe'
<1>0. /\ writing /\ ~sending /\ lock = Nobody /\ lock' = "wready" /\ sending' = TRUE
      /\ buffer' = Tail(buffer) /\ UNCHANGED <<linkVars, bio, eof, numbered, tpc>>
  BY DEF ReadySends, WriteSend
<1>1. buffer \in Seq(Seq(Nat)) /\ buffer # <<>> /\ wire \in Seq(Nat) /\ Len(wire) \in Nat
  BY <1>0 DEF OutTyped, LinkInv, LinkSafe
<1>2. Head(buffer) \in Seq(Nat) /\ Tail(buffer) \in Seq(Seq(Nat)) /\ Len(Head(buffer)) \in Nat
  BY <1>1
<1>3. PICK k \in 1..Len(Head(buffer)) :
        /\ wire' = wire \o SubSeq(Head(buffer), 1, k)
        /\ slice' = [slice EXCEPT !["wready"] = Left(Head(buffer), k)]
  BY DEF ReadySends, WriteSend, Send
<1>4. k \in 0..Len(Head(buffer)) /\ k \in Nat
  BY <1>2
<1>5. slice'["wready"] = Left(Head(buffer), k)
  BY <1>3, SenderNames DEF OutTyped
<1>6. \A u \in Tasks : tpc'[u] # "raw" /\ tpc'[u] # "outgoing"
  BY <1>0, SenderNames DEF LockSafe, HoldPCs
<1>7. Live
  BY <1>0 DEF Live, LinkInv, LinkSafe, Dead
<1>8. PICK m, n \in Nat :
        PartOf(slice["wready"], Len(wire), m) /\ ChainOf(buffer, m, n) /\ Numbers(n)
  BY <1>7 DEF WireSafe, Queued
<1>9. m = Len(wire)
  BY <1>0, <1>8, BufferNext
<1>10. PICK q \in Nat : RunOf(Head(buffer), Len(wire), q) /\ ChainOf(Tail(buffer), q, n)
  BY <1>1, <1>8, <1>9, ChainTail
<1>11. /\ Ordered(wire \o SubSeq(Head(buffer), 1, k))
       /\ Len(wire \o SubSeq(Head(buffer), 1, k)) = Len(wire) + k
       /\ PartOf(Left(Head(buffer), k), Len(wire) + k, q)
  BY <1>1, <1>2, <1>4, <1>10, SendRun DEF WireSafe, RunOf
<1>12. Ordered(wire)' /\ PartOf(slice["wready"], Len(wire), q)' /\ ChainOf(buffer, q, n)'
  BY <1>0, <1>3, <1>5, <1>10, <1>11
<1>13. Numbers(n)'
  <2>1. (eof = 0 /\ n = numbered) \/ (eof = n + 1 /\ eof = numbered)
    BY <1>0, <1>1, <1>8 DEF Numbers
  <2> QED
    BY <1>0, <1>6, <2>1 DEF Numbers
<1> QED
  BY <1>12, <1>13 DEF WireSafe, Queued

LEMMA WritePutWire ==
  ASSUME LinkInv, Dead, OutTyped, OutTyped', LockSafe, LockSafe', WireSafe, WritePut
  PROVE  WireSafe'
<1>0. /\ sending /\ sending' = FALSE /\ lock' = Nobody /\ UNCHANGED <<bio, eof, numbered, tpc>>
      /\ buffer' = IF slice["wready"] = <<>> THEN buffer ELSE <<slice["wready"]>> \o buffer
      /\ wire' = IF buffer' = <<>> /\ ~closing /\ eof # 0 THEN Append(wire, eof) ELSE wire
  BY DEF WritePut, tlsVars
<1>1. /\ buffer \in Seq(Seq(Nat)) /\ wire \in Seq(Nat) /\ Len(wire) \in Nat /\ numbered \in Nat
      /\ slice["wready"] \in Seq(Nat) /\ eof \in Nat
  BY SenderNames DEF OutTyped
<1>2. Live /\ lock = "wready"
  BY <1>0 DEF Live, LinkInv, LinkSafe, Dead
<1>3. PICK m, n \in Nat :
        PartOf(slice["wready"], Len(wire), m) /\ ChainOf(buffer, m, n) /\ Numbers(n)
  BY <1>2 DEF WireSafe, Queued
<1>4. (eof = 0 /\ n = numbered) \/ (eof = n + 1 /\ eof = numbered)
  BY <1>0, <1>2, <1>3 DEF Numbers
<1>5. ChainOf(buffer', Len(wire), n)
  <2>1. CASE slice["wready"] = <<>>
    <3>1. Len(slice["wready"]) = 0
      BY <2>1
    <3>2. m = Len(wire)
      BY <1>1, <1>3, <3>1 DEF PartOf
    <3> QED
      BY <1>0, <1>3, <2>1, <3>2
  <2>2. CASE slice["wready"] # <<>>
    <3>1. Len(slice["wready"]) > 0
      BY <1>1, <2>2
    <3>2. RunOf(slice["wready"], Len(wire), m)
      <4>1. Len(slice["wready"]) = m - Len(wire) /\ m \in Nat
        BY <1>3 DEF PartOf
      <4>2. Len(wire) < m
        BY <1>1, <3>1, <4>1
      <4> QED
        BY <1>3, <4>2 DEF RunOf
    <3>3. ChainOf(<<slice["wready"]>> \o buffer, Len(wire), n)
      BY <1>1, <1>3, <3>2, ChainPush
    <3> QED
      BY <1>0, <2>2, <3>3
  <2> QED
    BY <2>1, <2>2
<1>6. \A u \in Tasks : tpc'[u] # "raw" /\ tpc'[u] # "outgoing"
  BY <1>0, SenderNames DEF LockSafe, HoldPCs
<1>7. slice'["wready"] = <<>> /\ Len(wire)' \in Nat
  BY <1>0 DEF LockSafe, OutTyped
<1>8. PartOf(slice["wready"], Len(wire), Len(wire))'
  BY <1>7, NothingInHand
<1>9. CASE buffer' = <<>> /\ ~closing /\ eof # 0
  <2>1. Len(wire) = n /\ eof = Len(wire) + 1
    BY <1>1, <1>4, <1>5, <1>9, ChainNothing
  <2>2. Ordered(Append(wire, eof)) /\ Len(Append(wire, eof)) = eof
    BY <1>1, <2>1, OrderedAppend DEF WireSafe
  <2>3. Ordered(wire)' /\ Len(wire)' = eof
    BY <1>0, <1>9, <2>2
  <2>4. \A c \in Nat : c = eof => ChainOf(buffer, Len(wire), c)'
    BY <1>1, <1>9, <2>3, ChainEmpty
  <2>5. \A c \in Nat : c = eof => Numbers(c)'
    <3>1. eof' = eof /\ numbered' = eof /\ ~sending' /\ buffer' = <<>> /\ lock' # "ssl"
      BY <1>0, <1>4, <1>9, SenderNames
    <3> QED
      BY <1>6, <3>1 DEF Numbers
  <2>6. Queued'
    BY <1>1, <1>7, <1>8, <2>4, <2>5 DEF Queued
  <2> QED
    BY <2>3, <2>6 DEF WireSafe
<1>10. CASE ~(buffer' = <<>> /\ ~closing /\ eof # 0)
  <2>1. wire' = wire
    BY <1>0, <1>10
  <2>2. ChainOf(buffer, Len(wire), n)'
    BY <1>5, <2>1
  <2>3. Numbers(n)'
    <3>1. lock' # "ssl" /\ UNCHANGED <<eof, numbered>>
      BY <1>0, SenderNames
    <3> QED
      BY <1>4, <1>6, <3>1 DEF Numbers
  <2>4. Queued'
    BY <1>7, <1>8, <2>2, <2>3 DEF Queued
  <2> QED
    BY <2>1, <2>4 DEF WireSafe
<1> QED
  BY <1>9, <1>10

LEMMA WireStep ==
  ASSUME LinkInv, Dead, ModeSafe, OutTyped, OutTyped', LockSafe, LockSafe', WireSafe,
         connLost => connLost', WriteMove
  PROVE  WireSafe'
<1>1. CASE Aside
  BY <1>1, AsideWire
<1>2. ASSUME NEW t \in Tasks, EnterPlain(t) PROVE WireSafe'
  <2>1. slice'["wready"] = slice["wready"] /\ slice'[t] = <<numbered + 1, numbered + 2>>
    BY <1>2, SenderNames, SliceKept DEF EnterPlain
  <2>2. \A u \in Tasks : tpc[u] \notin HoldPCs
    BY <1>2, FreeLock DEF EnterPlain
  <2>3. RunOf(<<numbered + 1, numbered + 2>>, numbered, numbered + 2)
    BY UnitsRun DEF OutTyped
  <2>4. \A u \in Tasks : tpc'[u] # "outgoing" /\ (tpc'[u] = "raw" => u = t)
    BY <1>2, <2>2 DEF EnterPlain, PcMove, HoldPCs
  <2>5. /\ UNCHANGED <<sending, wire, buffer, eof, connLost,
                       sockOpen>> /\ lock = Nobody /\ lock' = t
        /\ eof = 0 /\ numbered' = numbered + 2
    BY <1>2 DEF EnterPlain
  <2>6. \A u \in Tasks : tpc'[u] = "raw" => RunOf(slice'[u], numbered, numbered')
    BY <2>1, <2>3, <2>4, <2>5
  <2> QED
    BY <2>1, <2>4, <2>5, <2>6, HolderWire, SenderNames
<1>3. ASSUME NEW t \in Tasks, EnterSecure(t) PROVE WireSafe'
  <2>1. bio = <<>> /\ \A u \in Tasks : tpc[u] \notin HoldPCs
    BY <1>3, FreeLock DEF EnterSecure
  <2>2. /\ RunOf(<<numbered + 1, numbered + 2>>, numbered, numbered + 2)
        /\ RunOf(<<numbered + 1>>, numbered, numbered + 1)
    BY UnitsRun DEF OutTyped
  <2>3. /\ <<>> \o <<numbered + 1, numbered + 2>> = <<numbered + 1, numbered + 2>>
        /\ Append(<<>>, numbered + 1) = <<numbered + 1>>
    BY UnitsTyped, ConcatEmptySeq
  <2>4. /\ UNCHANGED <<sending, slice, wire, buffer, eof, connLost,
                       sockOpen>> /\ lock = Nobody /\ lock' = t
        /\ eof = 0 /\ PcMove(t, "outgoing")
    BY <1>3 DEF EnterSecure
  <2>5. RunOf(bio', numbered, numbered')
    BY <1>3, <2>1, <2>2, <2>3 DEF EnterSecure
  <2>6. \A u \in Tasks : tpc'[u] # "raw"
    BY <2>1, <2>4 DEF PcMove, HoldPCs
  <2> QED
    BY <2>4, <2>5, <2>6, HolderWire, SenderNames
<1>4. ASSUME NEW t \in Tasks, TakeOut(t) PROVE WireSafe'
  <2>1. /\ lock = t /\ tpc[t] = "outgoing" /\ PcMove(t, "raw")
        /\ UNCHANGED <<lock, sending, ssl, eof, wire, buffer, connLost, sockOpen, numbered>>
    BY <1>4 DEF TakeOut
  <2>2. slice'["wready"] = slice["wready"] /\ slice'[t] = bio
    BY <1>4, SenderNames, SliceKept DEF TakeOut
  <2>3. \A u \in Tasks \ {t} : tpc[u] \notin HoldPCs
    BY <2>1, TaskLock
  <2>4. tpc'[t] = "raw" /\ \A u \in Tasks : tpc'[u] # "outgoing" /\ (tpc'[u] = "raw" => u = t)
    BY <2>1, <2>3 DEF PcMove, HoldPCs
  <2>5. ASSUME Live' PROVE Queued'
    <3>1. PICK m, n \in Nat :
            PartOf(slice["wready"], Len(wire), m) /\ ChainOf(buffer, m, n) /\ Numbers(n)
      BY <2>1, <2>5 DEF WireSafe, Queued, Live
    <3>2. eof = 0 /\ RunOf(bio, n, numbered)
      BY <2>1, <3>1 DEF Numbers
    <3>3. Numbers(n)'
      BY <2>1, <2>2, <2>4, <3>2, SenderNames DEF Numbers
    <3>4. PartOf(slice["wready"], Len(wire), m)' /\ ChainOf(buffer, m, n)'
      BY <2>1, <2>2, <3>1
    <3> QED
      BY <3>3, <3>4 DEF Queued
  <2> QED
    BY <2>1, <2>5 DEF WireSafe
<1>5. ASSUME NEW t \in Tasks, PutRaw(t) PROVE WireSafe'
  <2>1. /\ lock = t /\ tpc[t] = "raw" /\ lock' = Nobody /\ RawWrite(t)
        /\ UNCHANGED <<sending, eof, numbered>>
    BY <1>5 DEF PutRaw
  <2>2. \A n \in Nat : Live /\ Numbers(n) => eof = 0 /\ RunOf(slice[t], n, numbered)
    BY <2>1 DEF Numbers
  <2> QED
    BY <2>1, <2>2, PutWire, SenderNames
<1>6. ASSUME NEW t \in Tasks, Fin(t) PROVE WireSafe'
  BY <1>6, FinWire
<1>7. CASE SslTakes
  <2>1. slice'["wready"] = slice["wready"] /\ slice'["ssl"] = bio \o <<numbered + 1>>
    BY <1>7, SenderNames, SliceKept DEF SslTakes
  <2>2. bio = <<>> /\ \A u \in Tasks : tpc[u] \notin HoldPCs
    BY <1>7, FreeLock DEF SslTakes
  <2>3. RunOf(<<numbered + 1>>, numbered, numbered + 1)
    BY UnitsRun DEF OutTyped
  <2>4. <<>> \o <<numbered + 1>> = <<numbered + 1>>
    BY UnitsTyped, ConcatEmptySeq
  <2>5. /\ UNCHANGED <<sending, wire, buffer, eof, connLost, sockOpen, tpc>> /\ lock = Nobody
        /\ lock' = "ssl" /\ eof = 0 /\ numbered' = numbered + 1
    BY <1>7 DEF SslTakes
  <2>6. RunOf(slice'["ssl"], numbered, numbered')
    BY <2>1, <2>2, <2>3, <2>4, <2>5
  <2>7. \A u \in Tasks : tpc'[u] # "raw" /\ tpc'[u] # "outgoing"
    BY <2>2, <2>5 DEF HoldPCs
  <2> QED
    BY <2>1, <2>5, <2>6, <2>7, HolderWire, SenderNames
<1>8. CASE SslPuts
  <2>1. lock = "ssl" /\ lock' = Nobody /\ RawWrite("ssl") /\ UNCHANGED <<sending, eof, numbered>>
    BY <1>8 DEF SslPuts
  <2>2. \A n \in Nat : Live /\ Numbers(n) => eof = 0 /\ RunOf(slice["ssl"], n, numbered)
    BY <2>1 DEF Numbers
  <2> QED
    BY <2>1, <2>2, PutWire, SenderNames
<1>9. CASE ReadySends
  BY <1>9, ReadyWire
<1>10. CASE WritePut
  BY <1>10, WritePutWire
<1> QED
  BY <1>1, <1>2, <1>3, <1>4, <1>5, <1>6, <1>7, <1>8, <1>9, <1>10 DEF WriteMove

WireInv == NoUpgrade => ModeSafe /\ Dead /\ LockSafe /\ WireSafe

LEMMA WireInvStep ==
  ASSUME LinkInv, TaskTyped, OutTyped, OutTyped', WireInv, [ConnNext]_connectionVars PROVE WireInv'
<1> SUFFICES ASSUME NoUpgrade' PROVE ModeSafe' /\ Dead' /\ LockSafe' /\ WireSafe'
  BY DEF WireInv
<1>0. LinkTyped
  BY DEF LinkInv
<1>1. UNCHANGED setup /\ (connLost => connLost')
  BY <1>0, Stays
<1>2. NoUpgrade
  BY <1>1 DEF NoUpgrade
<1>3. ModeSafe /\ Dead /\ LockSafe /\ WireSafe
  BY <1>2 DEF WireInv
<1>4. ModeSafe'
  BY <1>0, <1>2, <1>3, ModeStep
<1>5. Dead'
  BY <1>3, DeadStep
<1>6. WriteMove
  BY <1>0, <1>2, <1>3, WriteMoves
<1>7. LockSafe'
  BY <1>3, <1>6, LockStep
<1>8. WireSafe'
  BY <1>1, <1>3, <1>6, <1>7, WireStep
<1> QED
  BY <1>4, <1>5, <1>7, <1>8

LEMMA WireInit == ConnInit => WireInv
<1> SUFFICES ASSUME ConnInit PROVE ModeSafe /\ Dead /\ LockSafe /\ WireSafe
  BY DEF WireInv
<1>1. /\ buffer = <<>> /\ wire = <<>> /\ eof = 0 /\ numbered = 0 /\ bio = <<>> /\ lock = Nobody
      /\ slice = [s \in Senders |-> <<>>] /\ sending = FALSE /\ ssl = "idle" /\ connLost = FALSE
      /\ tpc = [t \in Tasks |-> "op"]
  BY DEF ConnInit, TransportInit, SslInit
<1>2. ModeSafe
  BY ModeInit
<1>3. Dead
  BY <1>1 DEF Dead
<1>4. LockSafe
  BY <1>1, SenderNames DEF LockSafe, HoldPCs
<1>5. Ordered(wire) /\ Len(wire) = 0
  BY <1>1 DEF Ordered
<1>6. PartOf(slice["wready"], Len(wire), 0) /\ ChainOf(buffer, 0, 0)
  BY <1>1, <1>5, SenderNames, NothingInHand, ChainEmpty
<1>7. Numbers(0)
  BY <1>1, SenderNames DEF Numbers
<1> QED
  BY <1>2, <1>3, <1>4, <1>5, <1>6, <1>7 DEF WireSafe, Queued

LEMMA StreamTasks == StreamInv => TaskTyped
  BY DEF StreamInv

LEMMA WireHolds == ConnSpec => []WireInv
  BY WireInit, WireInvStep, LinkHolds, StreamHolds, StreamTasks, OutHolds, PTL DEF ConnSpec

\* What a connection sends leaves it in the order in which the writes got its lock, whatever
\* part of a chunk a send takes, whoever writes - tasks, _write_ready, SSLProtocol's _do_read
\* - and whenever the peer, a close, an abort or a timeout ends it; the FIN of write_eof comes
\* last.  The connection is plain, or a TLS one from its start.
THEOREM WireInOrder == ConnSpec => [](NoUpgrade => WireOrder)
<1>1. WireInv => (NoUpgrade => WireOrder)
  BY DEF WireInv, WireSafe, Ordered, WireOrder
<1> QED
  BY <1>1, WireHolds, PTL
=============================================================================
