--------------------------- MODULE FuturesProofs ---------------------------
(***************************************************************************)
(* Proofs about Futures, for every set of threads, futures, callbacks and  *)
(* awaiters and every bound on the nesting of regions.                     *)
(***************************************************************************)
EXTENDS Futures, QueueLemmas, FiniteSetTheorems, TLAPS

-----------------------------------------------------------------------------
\* The inductive invariant, part by part.

\* The full types: what a thread carries with it at each point of a call.
ThreadStates ==
  [pc : {"idle"}] \cup [pc : {"wake"}, f : Futs, cbs : Seq(Callbacks)]
  \cup [pc : {"callbacks"}, cbs : Seq(Callbacks)] \cup [pc : {"flush"}, wakes : Seq(Wakes)]

AwaiterStates ==
  [pc : {"start"}] \cup [pc : {"parked", "read", "result", "cancelled"}, f : Futs]

Typed ==
  /\ state \in [Futs -> {"PENDING", "FINISHED", "CANCELLED"}]
  /\ event \in [Futs -> BOOLEAN]
  /\ callbacks \in [Futs -> Seq(Callbacks)]
  /\ added \in [Callbacks -> Futs \cup {NoFuture}]
  /\ removed \subseteq Callbacks
  /\ scheduled \in [Callbacks -> Nat]
  /\ dropped \subseteq Callbacks
  /\ closed \in BOOLEAN
  /\ depth \in [Threads -> 0 .. MaxDepth]
  /\ pending \in [Threads -> Seq(Wakes)]
  /\ heldBy \in [Threads -> SUBSET Wakes]
  /\ th \in [Threads -> ThreadStates]
  /\ aw \in [Awaiters -> AwaiterStates]

\* The wakes a thread's region holds back or its flush still has to run; the futures
\* whose event the thread still has to set; the callbacks it still has to call call_soon
\* with, those whose handle it holds back, and both.
Waiting(t) == Content(pending[t]) \cup (IF At(t, "flush") THEN Content(th[t].wakes) ELSE {})

Owed(t) == ((IF At(t, "wake") THEN {th[t].f} ELSE {}) \cup Waiting(t)) \cap Futs

Hand(t) == IF th[t].pc \in {"wake", "callbacks"} THEN Content(th[t].cbs) ELSE {}

Late(t) == Waiting(t) \cap Callbacks

Carried(t) == Hand(t) \cup Late(t)

\* An event is set only for a completed future, and an awaiter only reads after it.
EventsFollow ==
  /\ \A f \in Futs : event[f] => Done(f)
  /\ \A t \in Threads : \A f \in Owed(t) : Done(f)
  /\ \A a \in Awaiters : aw[a].pc = "read" => event[aw[a].f]

\* A wake is never lost: the event of a completed future is set, or some thread owes it;
\* and a thread holds wakes back only inside a region.
WakesKept ==
  /\ \A f \in Futs : Done(f) => event[f] \/ \E t \in Threads : f \in Owed(t)
  /\ \A t \in Threads : pending[t] # <<>> => depth[t] > 0

\* A future completed in a region is owed by that thread alone.
RegionsHold ==
  \A t \in Threads :
    /\ depth[t] = 0 => heldBy[t] = {}
    /\ At(t, "flush") => depth[t] = 0
    /\ \A f \in heldBy[t] \cap Futs :
         /\ Done(f) /\ ~event[f]
         /\ \A u \in Threads : u # t => f \notin Owed(u)

\* Nothing is twice in what a thread has to do.
PlacesOnce ==
  \A t \in Threads :
    /\ th[t].pc \in {"wake", "callbacks"} => Once(th[t].cbs)
    /\ Once(pending[t])
    /\ At(t, "wake") => th[t].f \notin Content(pending[t])
    /\ At(t, "flush") => Once(th[t].wakes) /\ pending[t] = <<>>
    /\ Hand(t) \cap Late(t) = {}

\* A callback is in one place.
ListsApart ==
  /\ \A f \in Futs : Once(callbacks[f])
  /\ \A f \in Futs : \A c \in Content(callbacks[f]) :
       added[c] = f /\ ~Done(f) /\ c \notin removed /\ scheduled[c] = 0

CarriedApart ==
  /\ \A t \in Threads : \A c \in Carried(t) :
       /\ added[c] # NoFuture /\ Done(added[c]) /\ c \notin removed
       /\ scheduled[c] = 0 /\ c \notin dropped
  /\ \A t, u \in Threads : t # u => Carried(t) \cap Carried(u) = {}

NoneLost ==
  \A c \in Callbacks :
    /\ added[c] = NoFuture => scheduled[c] = 0
    /\ c \in removed => added[c] # NoFuture /\ scheduled[c] = 0
    /\ c \in dropped => added[c] # NoFuture /\ Done(added[c]) /\ scheduled[c] = 0
    /\ scheduled[c] \in 0 .. 1
    /\ added[c] # NoFuture /\ c \notin removed
         => \/ c \in Content(callbacks[added[c]])
            \/ \E t \in Threads : c \in Carried(t)
            \/ scheduled[c] = 1
            \/ c \in dropped

\* A callback that became due in a region stays with that thread, or is refused; and
\* only a closed loop refuses one.
CallbacksHeld ==
  /\ \A t \in Threads : heldBy[t] \cap Callbacks \subseteq Carried(t) \cup dropped
  /\ dropped # {} => closed

IInv ==
  /\ Typed /\ EventsFollow /\ WakesKept /\ RegionsHold
  /\ PlacesOnce /\ ListsApart /\ CarriedApart /\ NoneLost /\ CallbacksHeld
-----------------------------------------------------------------------------
\* What the records of threads and awaiters contain.
LEMMA Shapes ==
  ASSUME Typed
  PROVE  /\ \A t \in Threads :
              /\ th[t].pc \in {"idle", "wake", "callbacks", "flush"}
              /\ At(t, "wake") => th[t].f \in Futs /\ th[t].cbs \in Seq(Callbacks)
              /\ At(t, "callbacks") => th[t].cbs \in Seq(Callbacks)
              /\ At(t, "callbacks") /\ th[t].cbs # <<>>
                   => [th[t] EXCEPT !.cbs = Tail(@)] = [pc |-> "callbacks", cbs |-> Tail(th[t].cbs)]
              /\ At(t, "flush") => th[t].wakes \in Seq(Wakes)
              /\ At(t, "flush") /\ th[t].wakes # <<>>
                   => [th[t] EXCEPT !.wakes = Tail(@)] = [pc |-> "flush", wakes |-> Tail(th[t].wakes)]
         /\ \A a \in Awaiters :
              /\ aw[a].pc \in {"start", "parked", "read", "result", "cancelled"}
              /\ aw[a].pc # "start" => aw[a].f \in Futs
              /\ aw[a].pc # "start" => \A l : [aw[a] EXCEPT !.pc = l] = [pc |-> l, f |-> aw[a].f]
<1>1. ASSUME NEW t \in Threads
      PROVE  /\ th[t].pc \in {"idle", "wake", "callbacks", "flush"}
             /\ At(t, "wake") => th[t].f \in Futs /\ th[t].cbs \in Seq(Callbacks)
             /\ At(t, "callbacks") => th[t].cbs \in Seq(Callbacks)
             /\ At(t, "flush") => th[t].wakes \in Seq(Wakes)
  BY DEF Typed, ThreadStates, At
<1>2. ASSUME NEW t \in Threads, At(t, "callbacks")
      PROVE  [th[t] EXCEPT !.cbs = Tail(@)] = [pc |-> "callbacks", cbs |-> Tail(th[t].cbs)]
  <2>1. th[t] \in [pc : {"callbacks"}, cbs : Seq(Callbacks)]
    BY <1>2 DEF Typed, ThreadStates, At
  <2>2. \A v : [th[t] EXCEPT !.cbs = v] = [pc |-> "callbacks", cbs |-> v]
    BY <2>1
  <2> QED
    BY <2>2
<1>3. ASSUME NEW t \in Threads, At(t, "flush")
      PROVE  [th[t] EXCEPT !.wakes = Tail(@)] = [pc |-> "flush", wakes |-> Tail(th[t].wakes)]
  <2>1. th[t] \in [pc : {"flush"}, wakes : Seq(Wakes)]
    BY <1>3 DEF Typed, ThreadStates, At
  <2>2. \A v : [th[t] EXCEPT !.wakes = v] = [pc |-> "flush", wakes |-> v]
    BY <2>1
  <2> QED
    BY <2>2
<1>4. ASSUME NEW a \in Awaiters
      PROVE  /\ aw[a].pc \in {"start", "parked", "read", "result", "cancelled"}
             /\ aw[a].pc # "start" => aw[a].f \in Futs
             /\ aw[a].pc # "start" => \A l : [aw[a] EXCEPT !.pc = l] = [pc |-> l, f |-> aw[a].f]
  BY DEF Typed, AwaiterStates
<1> QED
  BY <1>1, <1>2, <1>3, <1>4

LEMMA QueueTypes ==
  ASSUME NEW S, NEW s \in Seq(S)
  PROVE  /\ \A x \in S : Append(s, x) \in Seq(S) /\ <<x>> \in Seq(S)
         /\ s # <<>> => Head(s) \in S /\ Tail(s) \in Seq(S)
         /\ <<>> \in Seq(S)
  OBVIOUS

\* The two ways to speak of what is in a sequence.
LEMMA ToSetContent == ASSUME NEW S, NEW s \in Seq(S) PROVE ToSet(s) = Content(s)
  BY DEF ToSet, Content

\* A future is no callback.
LEMMA WakesSplit ==
  /\ Futs \subseteq Wakes /\ Callbacks \subseteq Wakes
  /\ \A w \in Wakes : (w \in Futs /\ w \notin Callbacks) \/ (w \in Callbacks /\ w \notin Futs)
  BY WakesAssumption DEF Wakes

\* A thread only changes what it owes and carries itself.
LEMMA OthersKeep ==
  ASSUME Typed, NEW t \in Threads, NEW r, NEW p,
         th' = th \/ th' = [th EXCEPT ![t] = r],
         pending' = pending \/ pending' = [pending EXCEPT ![t] = p],
         NEW u \in Threads, u # t
  PROVE  /\ th'[u] = th[u] /\ pending'[u] = pending[u] /\ Owed(u)' = Owed(u)
         /\ Hand(u)' = Hand(u) /\ Late(u)' = Late(u) /\ Carried(u)' = Carried(u)
<1>1. th'[u] = th[u] /\ pending'[u] = pending[u]
  BY DEF Typed
<1> QED
  BY <1>1 DEF Owed, Hand, Late, Carried, Waiting, At

LEMMA TypedStep == Typed /\ EventsFollow /\ [Next]_vars => Typed'
<1> SUFFICES ASSUME Typed, EventsFollow, [Next]_vars PROVE Typed'
  OBVIOUS
<1> USE DEF Become, At, vars, futVars, cbVars, tlsVars, Idle
<1>a. /\ [pc |-> "idle"] \in ThreadStates
      /\ \A f \in Futs, q \in Seq(Callbacks) : [pc |-> "wake", f |-> f, cbs |-> q] \in ThreadStates
      /\ \A q \in Seq(Callbacks) : [pc |-> "callbacks", cbs |-> q] \in ThreadStates
      /\ \A q \in Seq(Wakes) : [pc |-> "flush", wakes |-> q] \in ThreadStates
      /\ \A f \in Futs, l \in {"parked", "read", "result", "cancelled"} :
           [pc |-> l, f |-> f] \in AwaiterStates
  BY DEF ThreadStates, AwaiterStates
<1>b. \A t \in Threads, r \in ThreadStates : [th EXCEPT ![t] = r] \in [Threads -> ThreadStates]
  BY DEF Typed
<1>c. /\ \A c \in Callbacks : [scheduled EXCEPT ![c] = @ + 1] \in [Callbacks -> Nat]
      /\ \A f \in Futs : [event EXCEPT ![f] = TRUE] \in [Futs -> BOOLEAN]
      /\ scheduled \in [Callbacks -> Nat] /\ event \in [Futs -> BOOLEAN]
  BY DEF Typed
<1> HIDE DEF ThreadStates, AwaiterStates
<1>1. ASSUME NEW t \in Threads, NEW f \in Futs, NEW s \in {"FINISHED", "CANCELLED"},
             Complete(t, f, s)
      PROVE  Typed'
  <2>1. callbacks[f] \in Seq(Callbacks) /\ <<>> \in Seq(Callbacks)
    BY DEF Typed
  <2>2. th' \in [Threads -> ThreadStates]
    BY <1>1, <1>a, <1>b, <2>1 DEF Complete
  <2>3. heldBy' \in [Threads -> SUBSET Wakes]
    <3>1. ToSet(callbacks[f]) \subseteq Callbacks
      BY <2>1, ToSetContent, ContentTyped
    <3>2. heldBy[t] \cup ({f} \cup ToSet(callbacks[f])) \subseteq Wakes
      BY <3>1, WakesSplit DEF Typed
    <3> QED
      BY <1>1, <3>2 DEF Complete, Held, Typed
  <2> QED
    BY <1>1, <2>1, <2>2, <2>3 DEF Complete, Typed
<1>2. ASSUME NEW t \in Threads, Wake(t) PROVE Typed'
  <2>1. th[t].f \in Futs /\ th[t].cbs \in Seq(Callbacks) /\ pending[t] \in Seq(Wakes)
    BY <1>2, Shapes DEF Wake, Typed
  <2>2. Append(pending[t], th[t].f) \in Seq(Wakes)
    BY <2>1, WakesSplit
  <2>3. th' \in [Threads -> ThreadStates]
    BY <1>2, <1>a, <1>b, <2>1 DEF Wake
  <2> QED
    BY <1>2, <2>1, <2>2, <2>3 DEF Wake, Typed
<1>3. ASSUME NEW t \in Threads, CallSoon(t) PROVE Typed'
  <2>1. th[t].cbs \in Seq(Callbacks) /\ pending[t] \in Seq(Wakes)
    BY <1>3, Shapes DEF CallSoon, Typed
  <2>2. CASE th[t].cbs # <<>> /\ ~closed
    <3>1. Head(th[t].cbs) \in Callbacks /\ Tail(th[t].cbs) \in Seq(Callbacks)
      BY <2>1, <2>2
    <3>2. th' = [th EXCEPT ![t] = [pc |-> "callbacks", cbs |-> Tail(th[t].cbs)]]
      BY <1>3, <2>2, Shapes DEF CallSoon
    <3>3. th' \in [Threads -> ThreadStates]
      BY <1>a, <1>b, <3>1, <3>2
    <3>4. /\ UNCHANGED dropped
          /\ \/ scheduled' = scheduled
             \/ scheduled' = [scheduled EXCEPT ![Head(th[t].cbs)] = @ + 1]
          /\ \/ pending' = pending
             \/ pending' = [pending EXCEPT ![t] = Append(pending[t], Head(th[t].cbs))]
      BY <1>3, <2>2 DEF CallSoon
    <3>5. scheduled' \in [Callbacks -> Nat]
      BY <1>c, <3>1, <3>4
    <3>6. Append(pending[t], Head(th[t].cbs)) \in Seq(Wakes)
      BY <2>1, <3>1, WakesSplit
    <3>7. pending' \in [Threads -> Seq(Wakes)]
      BY <3>4, <3>6 DEF Typed
    <3> QED
      BY <1>3, <3>3, <3>4, <3>5, <3>7 DEF CallSoon, Typed
  <2>3. CASE th[t].cbs = <<>> \/ closed
    <3>1. /\ th' \in [Threads -> ThreadStates] /\ UNCHANGED <<scheduled, pending>>
          /\ dropped' \in {dropped, dropped \cup ToSet(th[t].cbs)}
      BY <1>3, <1>a, <1>b, <2>3 DEF CallSoon
    <3>2. ToSet(th[t].cbs) \subseteq Callbacks
      BY <2>1, ToSetContent, ContentTyped
    <3> QED
      BY <1>3, <3>1, <3>2 DEF CallSoon, Typed
  <2> QED
    BY <2>2, <2>3
<1>4. ASSUME NEW t \in Threads, NEW f \in Futs, NEW c \in Callbacks, AddDoneCallback(t, f, c)
      PROVE  Typed'
  <2>1. callbacks[f] \in Seq(Callbacks)
    BY DEF Typed
  <2>2. Append(callbacks[f], c) \in Seq(Callbacks) /\ <<c>> \in Seq(Callbacks)
    BY <2>1
  <2>3. callbacks' \in [Futs -> Seq(Callbacks)] /\ added' \in [Callbacks -> Futs \cup {NoFuture}]
    BY <1>4, <2>2 DEF AddDoneCallback, Typed
  <2>4. th' \in [Threads -> ThreadStates]
    BY <1>4, <1>a, <1>b, <2>2 DEF AddDoneCallback, Typed
  <2>5. heldBy' \in [Threads -> SUBSET Wakes]
    <3>1. heldBy[t] \cup {c} \subseteq Wakes
      BY WakesSplit DEF Typed
    <3> QED
      BY <1>4, <3>1 DEF AddDoneCallback, Held, Typed
  <2> QED
    BY <1>4, <2>3, <2>4, <2>5 DEF AddDoneCallback, Typed
<1>5. ASSUME NEW t \in Threads, NEW f \in Futs, NEW c \in Callbacks, RemoveDoneCallback(t, f, c)
      PROVE  Typed'
  <2>1. PICK i \in 1 .. Len(callbacks[f]) :
          callbacks' = [callbacks EXCEPT ![f] = RemoveAt(callbacks[f], i)]
    BY <1>5 DEF RemoveDoneCallback
  <2>2. RemoveAt(callbacks[f], i) \in Seq(Callbacks)
    BY DEF Typed, RemoveAt
  <2> QED
    BY <1>5, <2>1, <2>2 DEF RemoveDoneCallback, Typed
<1>6. ASSUME NEW t \in Threads, Enter(t) PROVE Typed'
  BY <1>6, DepthAssumption DEF Enter, Typed
<1>7. ASSUME NEW t \in Threads, Leave(t) PROVE Typed'
  <2>1. /\ pending[t] \in Seq(Wakes) /\ <<>> \in Seq(Wakes)
        /\ depth' \in [Threads -> 0 .. MaxDepth]
    BY <1>7, DepthAssumption DEF Leave, Typed
  <2>2. th' \in [Threads -> ThreadStates]
    <3>1. CASE depth[t] = 1
      BY <1>7, <1>a, <1>b, <2>1, <3>1 DEF Leave
    <3>2. CASE depth[t] # 1
      BY <1>7, <3>2 DEF Leave, Typed
    <3> QED
      BY <3>1, <3>2
  <2>3. pending' \in [Threads -> Seq(Wakes)] /\ heldBy' \in [Threads -> SUBSET Wakes]
    BY <1>7, <2>1 DEF Leave, Typed
  <2> QED
    BY <1>7, <2>1, <2>2, <2>3 DEF Leave, Typed
<1>8. ASSUME NEW t \in Threads, Flush(t) PROVE Typed'
  <2>1. th[t].wakes \in Seq(Wakes)
    BY <1>8, Shapes DEF Flush
  <2>2. CASE th[t].wakes # <<>>
    <3>1. Head(th[t].wakes) \in Wakes /\ Tail(th[t].wakes) \in Seq(Wakes)
      BY <2>1, <2>2
    <3>2. th' = [th EXCEPT ![t] = [pc |-> "flush", wakes |-> Tail(th[t].wakes)]]
      BY <1>8, <2>2, Shapes DEF Flush
    <3>3. th' \in [Threads -> ThreadStates]
      BY <1>a, <1>b, <3>1, <3>2
    <3>4. event' \in [Futs -> BOOLEAN] /\ scheduled' \in [Callbacks -> Nat]
      BY <1>8, <1>c, <2>2, <3>1 DEF Flush
    <3> QED
      BY <1>8, <3>3, <3>4 DEF Flush, Typed
  <2>3. CASE th[t].wakes = <<>>
    <3>1. th' \in [Threads -> ThreadStates] /\ UNCHANGED <<event, scheduled>>
      BY <1>8, <1>a, <1>b, <2>3 DEF Flush
    <3> QED
      BY <1>8, <3>1 DEF Flush, Typed
  <2> QED
    BY <2>2, <2>3
<1>9. ASSUME NEW a \in Awaiters, NEW f \in Futs, Await(a, f) PROVE Typed'
  <2>1. PICK l \in {"parked", "read"} : aw' = [aw EXCEPT ![a] = [pc |-> l, f |-> f]]
    BY <1>9 DEF Await
  <2>2. aw' \in [Awaiters -> AwaiterStates]
    BY <1>a, <2>1 DEF Typed
  <2> QED
    BY <1>9, <2>2 DEF Await, Typed
<1>10. ASSUME NEW a \in Awaiters, Resume(a) PROVE Typed'
  <2>1. aw[a].f \in Futs /\ aw' = [aw EXCEPT ![a] = [pc |-> "read", f |-> aw[a].f]]
    BY <1>10, Shapes DEF Resume
  <2> QED
    BY <1>10, <1>a, <2>1, ZenonT(40) DEF Resume, Typed
<1>11. ASSUME NEW a \in Awaiters, Read(a) PROVE Typed'
  <2>1. aw[a].f \in Futs
    BY <1>11, Shapes DEF Read
  <2>2. state[aw[a].f] \in {"FINISHED", "CANCELLED"}
    BY <1>11, <2>1 DEF Read, EventsFollow, Done, Typed
  <2>3. PICK l \in {"result", "cancelled"} : aw' = [aw EXCEPT ![a] = [pc |-> l, f |-> aw[a].f]]
    BY <1>11, <2>2, Shapes DEF Read
  <2>4. aw' \in [Awaiters -> AwaiterStates]
    BY <1>a, <2>1, <2>3 DEF Typed
  <2> QED
    BY <1>11, <2>4 DEF Read, Typed
<1>12. CASE UNCHANGED vars
  BY <1>12 DEF Typed
<1>13. CASE Close
  BY <1>13 DEF Close, Typed
<1> QED
  BY <1>1, <1>2, <1>3, <1>4, <1>5, <1>6, <1>7, <1>8, <1>9, <1>10, <1>11, <1>12, <1>13
     DEF Next, Continue
-----------------------------------------------------------------------------
\* What each step does to what its thread owes and carries.

OthersAlone(t) ==
  \A u \in Threads : u # t =>
    /\ th'[u] = th[u] /\ pending'[u] = pending[u] /\ Owed(u)' = Owed(u)
    /\ Hand(u)' = Hand(u) /\ Late(u)' = Late(u) /\ Carried(u)' = Carried(u)

LEMMA CompleteEffect ==
  ASSUME Typed, NEW t \in Threads, NEW f \in Futs, NEW s, Complete(t, f, s)
  PROVE  /\ OthersAlone(t)
         /\ Owed(t)' = Owed(t) \cup {f}
         /\ Hand(t) = {} /\ Hand(t)' = Content(callbacks[f]) /\ Late(t)' = Late(t)
         /\ th'[t].pc = "wake" /\ th'[t].cbs = callbacks[f] /\ th'[t].f = f
<1>1. th' = [th EXCEPT ![t] = [pc |-> "wake", f |-> f, cbs |-> callbacks[f]]] /\ pending' = pending
  BY DEF Complete, Become
<1>2. th'[t] = [pc |-> "wake", f |-> f, cbs |-> callbacks[f]] /\ th[t].pc = "idle"
  BY <1>1 DEF Typed, Complete, At
<1>3. OthersAlone(t)
  BY <1>1, OthersKeep DEF OthersAlone
<1>4. Waiting(t)' = Waiting(t)
  BY <1>1, <1>2 DEF Waiting, At
<1> QED
  BY <1>1, <1>2, <1>3, <1>4 DEF Owed, Hand, Late, At

LEMMA WakeEffect ==
  ASSUME Typed, NEW t \in Threads, Wake(t)
  PROVE  /\ OthersAlone(t)
         /\ th[t].f \in Futs /\ th[t].f \in Owed(t)
         /\ depth[t] = 0 => Owed(t) = Owed(t)' \cup {th[t].f}
         /\ depth[t] > 0 => Owed(t)' = Owed(t)
         /\ Hand(t)' = Hand(t) /\ Late(t)' = Late(t)
         /\ th[t].pc = "wake" /\ th'[t].pc = "callbacks" /\ th'[t].cbs = th[t].cbs
<1>0. th[t].f \in Futs /\ pending[t] \in Seq(Wakes) /\ At(t, "wake") /\ depth[t] \in Nat
  <2>1. At(t, "wake") /\ th[t].f \in Futs
    BY Shapes DEF Wake
  <2>2. pending[t] \in Seq(Wakes) /\ depth[t] \in Nat
    BY DepthAssumption DEF Typed
  <2> QED
    BY <2>1, <2>2
<1>1. th' = [th EXCEPT ![t] = [pc |-> "callbacks", cbs |-> th[t].cbs]]
  BY DEF Wake, Become
<1>2. th'[t] = [pc |-> "callbacks", cbs |-> th[t].cbs]
  BY <1>1 DEF Typed
<1>3. pending' = pending \/ pending' = [pending EXCEPT ![t] = Append(pending[t], th[t].f)]
  BY DEF Wake
<1>4. OthersAlone(t)
  BY <1>1, <1>3, OthersKeep DEF OthersAlone
<1>5. Hand(t)' = Hand(t) /\ th[t].f \in Owed(t)
  BY <1>0, <1>2 DEF Hand, Owed, At
<1>6. Waiting(t) = Content(pending[t]) /\ Waiting(t)' = Content(pending'[t])
  BY <1>0, <1>2 DEF Waiting, At
<1>7. CASE depth[t] = 0
  <2>1. pending' = pending
    BY <1>7 DEF Wake
  <2> QED
    BY <1>0, <1>2, <1>4, <1>5, <1>6, <1>7, <2>1 DEF At, Owed, Late
<1>8. CASE depth[t] > 0
  <2>1. pending' = [pending EXCEPT ![t] = Append(pending[t], th[t].f)]
    BY <1>0, <1>8 DEF Wake
  <2>2. pending'[t] = Append(pending[t], th[t].f)
    BY <2>1 DEF Typed
  <2>3. Content(pending'[t]) = Content(pending[t]) \cup {th[t].f}
    BY <1>0, <2>2, AppendContent, WakesSplit
  <2>4. Owed(t)' = Owed(t)
    BY <1>0, <1>2, <1>6, <2>3 DEF Owed, At
  <2>5. Late(t)' = Late(t)
    BY <1>0, <1>6, <2>3, WakesSplit DEF Late
  <2> QED
    BY <1>0, <1>2, <1>4, <1>5, <1>8, <2>4, <2>5 DEF At
<1> QED
  BY <1>0, <1>7, <1>8

\* call_soon queues a callback, holds it back, or refuses all that are left.
LEMMA CallSoonEffect ==
  ASSUME Typed, PlacesOnce, NEW t \in Threads, CallSoon(t)
  PROVE  /\ OthersAlone(t)
         /\ Owed(t)' = Owed(t)
         /\ th[t].pc = "callbacks"
         /\ th'[t].pc \in {"idle", "callbacks"}
         /\ th'[t].pc = "callbacks" => Once(th'[t].cbs)
         /\ Once(pending'[t]) /\ Hand(t)' \cap Late(t)' = {}
         /\ pending'[t] # <<>> => pending[t] # <<>> \/ depth[t] # 0
         /\ \/ Carried(t)' = Carried(t) /\ UNCHANGED <<scheduled, dropped>>
            \/ /\ closed /\ Carried(t)' = Late(t)
               /\ dropped' = dropped \cup Hand(t) /\ UNCHANGED scheduled
            \/ /\ depth[t] = 0 /\ UNCHANGED dropped
               /\ \E c \in Carried(t) : /\ Carried(t)' = Carried(t) \ {c}
                                        /\ scheduled' = [scheduled EXCEPT ![c] = @ + 1]
<1>0. /\ At(t, "callbacks") /\ th[t].cbs \in Seq(Callbacks) /\ pending[t] \in Seq(Wakes)
      /\ Once(th[t].cbs) /\ Once(pending[t]) /\ Hand(t) \cap Late(t) = {}
      /\ Hand(t) = Content(th[t].cbs) /\ Waiting(t) = Content(pending[t])
  <2>1. At(t, "callbacks") /\ th[t].cbs \in Seq(Callbacks)
    BY Shapes DEF CallSoon
  <2>2. pending[t] \in Seq(Wakes)
    BY DEF Typed
  <2> QED
    BY <2>1, <2>2 DEF PlacesOnce, Hand, Waiting, At
<1>1. CASE th[t].cbs = <<>> \/ closed
  <2>1. th' = [th EXCEPT ![t] = [pc |-> "idle"]] /\ UNCHANGED <<scheduled, pending>>
    BY <1>1 DEF CallSoon, Become, Idle
  <2>2. th'[t] = [pc |-> "idle"]
    BY <2>1 DEF Typed
  <2>3. OthersAlone(t)
    BY <2>1, OthersKeep DEF OthersAlone
  <2>4. Hand(t)' = {} /\ Waiting(t)' = Waiting(t) /\ Owed(t)' = Owed(t)
    BY <1>0, <2>1, <2>2 DEF Hand, Owed, Waiting, At
  <2>5. Late(t)' = Late(t) /\ Carried(t)' = Late(t)
    BY <2>4 DEF Late, Carried
  <2>6. \/ Hand(t) = {} /\ UNCHANGED dropped
        \/ closed /\ dropped' = dropped \cup Hand(t)
    <3>1. ToSet(th[t].cbs) = Hand(t)
      BY <1>0, ToSetContent
    <3>2. th[t].cbs = <<>> => Hand(t) = {}
      BY <1>0, SmallContent
    <3> QED
      BY <1>1, <3>1, <3>2 DEF CallSoon
  <2> QED
    BY <1>0, <2>1, <2>2, <2>3, <2>4, <2>5, <2>6 DEF At, Carried
<1>2. CASE th[t].cbs # <<>> /\ ~closed
  <2> DEFINE c == Head(th[t].cbs)
  <2>1. th' = [th EXCEPT ![t] = [pc |-> "callbacks", cbs |-> Tail(th[t].cbs)]] /\ UNCHANGED dropped
    BY <1>0, <1>2, Shapes DEF CallSoon, Become
  <2>2. th'[t] = [pc |-> "callbacks", cbs |-> Tail(th[t].cbs)]
    BY <2>1 DEF Typed
  <2>3. /\ c \in Content(th[t].cbs)
        /\ Content(Tail(th[t].cbs)) = Content(th[t].cbs) \ {c}
        /\ Once(Tail(th[t].cbs))
    BY <1>0, <1>2, TailContent
  <2>4. c \in Callbacks
    BY <1>0, <1>2
  <2>5. Hand(t)' = Hand(t) \ {c} /\ Waiting(t)' = Content(pending'[t]) /\ c \notin Late(t)
    BY <1>0, <2>2, <2>3 DEF Hand, Waiting, At
  <2>6. th'[t].pc = "callbacks" /\ Once(th'[t].cbs)
    BY <2>2, <2>3
  <2>7. CASE depth[t] = 0
    <3>1. pending' = pending /\ scheduled' = [scheduled EXCEPT ![c] = @ + 1]
      BY <1>2, <2>7 DEF CallSoon
    <3>2. OthersAlone(t)
      BY <2>1, <3>1, OthersKeep DEF OthersAlone
    <3>3. Waiting(t)' = Waiting(t)
      BY <1>0, <2>5, <3>1
    <3>4. Late(t)' = Late(t) /\ Owed(t)' = Owed(t)
      BY <1>0, <2>2, <3>3 DEF Late, Owed, At
    <3>5. c \in Carried(t) /\ Carried(t)' = Carried(t) \ {c}
      BY <1>0, <2>3, <2>5, <3>4 DEF Carried
    <3> QED
      BY <1>0, <2>1, <2>5, <2>6, <2>7, <3>1, <3>2, <3>4, <3>5 DEF At
  <2>8. CASE depth[t] # 0
    <3>1. pending' = [pending EXCEPT ![t] = Append(pending[t], c)] /\ UNCHANGED scheduled
      BY <1>2, <2>8 DEF CallSoon
    <3>2. OthersAlone(t)
      BY <2>1, <3>1, OthersKeep DEF OthersAlone
    <3>3. pending'[t] = Append(pending[t], c)
      BY <3>1 DEF Typed
    <3>4. c \notin Content(pending[t]) /\ c \in Wakes /\ c \notin Futs
      BY <1>0, <2>4, <2>5, WakesSplit DEF Late
    <3>5. Content(pending'[t]) = Content(pending[t]) \cup {c} /\ Once(pending'[t])
      BY <1>0, <3>3, <3>4, AppendContent
    <3>6. Late(t)' = Late(t) \cup {c} /\ Owed(t)' = Owed(t)
      BY <1>0, <2>2, <2>4, <2>5, <3>4, <3>5 DEF Late, Owed, At
    <3>7. Carried(t)' = Carried(t) /\ Hand(t)' \cap Late(t)' = {}
      BY <1>0, <2>3, <2>5, <3>6 DEF Carried
    <3> QED
      BY <1>0, <2>1, <2>6, <2>8, <3>1, <3>2, <3>5, <3>6, <3>7 DEF At
  <2> QED
    BY <2>7, <2>8
<1> QED
  BY <1>1, <1>2

LEMMA AddEffect ==
  ASSUME Typed, NEW t \in Threads, NEW f \in Futs, NEW c \in Callbacks, AddDoneCallback(t, f, c)
  PROVE  /\ OthersAlone(t)
         /\ Owed(t)' = Owed(t) /\ Hand(t) = {} /\ Late(t)' = Late(t)
         /\ Done(f) => Hand(t)' = {c} /\ th'[t].cbs = <<c>> /\ th'[t].pc = "callbacks"
         /\ ~Done(f) => Hand(t)' = {} /\ th' = th
<1>0. At(t, "idle") /\ pending' = pending
  BY DEF AddDoneCallback
<1>1. CASE Done(f)
  <2>1. th' = [th EXCEPT ![t] = [pc |-> "callbacks", cbs |-> <<c>>]]
    BY <1>1 DEF AddDoneCallback, Become
  <2>2. th'[t] = [pc |-> "callbacks", cbs |-> <<c>>]
    BY <2>1 DEF Typed
  <2>3. OthersAlone(t)
    BY <1>0, <2>1, OthersKeep DEF OthersAlone
  <2>4. Waiting(t)' = Waiting(t)
    BY <1>0, <2>2 DEF Waiting, At
  <2> QED
    BY <1>0, <1>1, <2>2, <2>3, <2>4, SmallContent DEF Hand, Owed, Late, At
<1>2. CASE ~Done(f)
  BY <1>0, <1>2 DEF AddDoneCallback, OthersAlone, Hand, Owed, Late, Carried, Waiting, At
<1> QED
  BY <1>1, <1>2

LEMMA LeaveEffect ==
  ASSUME Typed, NEW t \in Threads, Leave(t)
  PROVE  /\ OthersAlone(t)
         /\ Owed(t)' = Owed(t) /\ Hand(t) = {} /\ Hand(t)' = {} /\ Late(t)' = Late(t)
         /\ th[t].pc = "idle"
         /\ depth[t] = 1 => th'[t].pc = "flush" /\ pending'[t] = <<>> /\ th'[t].wakes = pending[t]
         /\ depth[t] # 1 => th' = th /\ pending' = pending
<1>0. At(t, "idle")
  BY DEF Leave
<1>1. CASE depth[t] = 1
  <2>1. th' = [th EXCEPT ![t] = [pc |-> "flush", wakes |-> pending[t]]]
        /\ pending' = [pending EXCEPT ![t] = <<>>]
    BY <1>1 DEF Leave, Become
  <2>2. th'[t] = [pc |-> "flush", wakes |-> pending[t]] /\ pending'[t] = <<>>
    BY <2>1 DEF Typed
  <2>3. OthersAlone(t)
    BY <2>1, OthersKeep DEF OthersAlone
  <2>4. Waiting(t)' = Waiting(t)
    BY <1>0, <2>2, SmallContent DEF Waiting, At
  <2> QED
    BY <1>0, <1>1, <2>2, <2>3, <2>4 DEF Hand, Owed, Late, At
<1>2. CASE depth[t] # 1
  BY <1>0, <1>2 DEF Leave, OthersAlone, Hand, Owed, Late, Carried, Waiting, At
<1> QED
  BY <1>1, <1>2

\* A flush sets an event or queues a callback that was held back.
LEMMA FlushEffect ==
  ASSUME Typed, PlacesOnce, NEW t \in Threads, Flush(t)
  PROVE  /\ OthersAlone(t)
         /\ Hand(t) = {} /\ Hand(t)' = {}
         /\ th[t].pc = "flush" /\ th'[t].pc \in {"idle", "flush"}
         /\ th'[t].pc = "flush" => Once(th'[t].wakes)
         /\ \/ Owed(t)' = Owed(t) /\ Carried(t)' = Carried(t) /\ UNCHANGED <<event, scheduled>>
            \/ \E f \in Futs : /\ Owed(t) = Owed(t)' \cup {f} /\ Carried(t)' = Carried(t)
                               /\ event' = [event EXCEPT ![f] = TRUE] /\ UNCHANGED scheduled
            \/ \E c \in Carried(t) : /\ Owed(t)' = Owed(t) /\ Carried(t)' = Carried(t) \ {c}
                                     /\ scheduled' = [scheduled EXCEPT ![c] = @ + 1]
                                     /\ UNCHANGED event
<1>0. /\ At(t, "flush") /\ th[t].wakes \in Seq(Wakes) /\ pending' = pending
      /\ Once(th[t].wakes) /\ pending[t] = <<>>
      /\ Hand(t) = {} /\ Waiting(t) = Content(th[t].wakes)
  <2>1. At(t, "flush") /\ th[t].wakes \in Seq(Wakes) /\ pending' = pending
    BY Shapes DEF Flush, tlsVars
  <2> QED
    BY <2>1, SmallContent DEF PlacesOnce, Hand, Waiting, At
<1>1. CASE th[t].wakes = <<>>
  <2>1. th' = [th EXCEPT ![t] = [pc |-> "idle"]] /\ UNCHANGED <<event, scheduled>>
    BY <1>1 DEF Flush, Become, Idle
  <2>2. th'[t] = [pc |-> "idle"]
    BY <2>1 DEF Typed
  <2>3. OthersAlone(t)
    BY <1>0, <2>1, OthersKeep DEF OthersAlone
  <2>4. Waiting(t)' = Waiting(t) /\ Hand(t)' = {}
    BY <1>0, <1>1, <2>2, SmallContent DEF Waiting, Hand, At
  <2> QED
    BY <1>0, <2>1, <2>2, <2>3, <2>4 DEF At, Owed, Late, Carried
<1>2. CASE th[t].wakes # <<>>
  <2> DEFINE w == Head(th[t].wakes)
  <2>1. th' = [th EXCEPT ![t] = [pc |-> "flush", wakes |-> Tail(th[t].wakes)]]
    BY <1>0, <1>2, Shapes DEF Flush, Become
  <2>2. th'[t] = [pc |-> "flush", wakes |-> Tail(th[t].wakes)]
    BY <2>1 DEF Typed
  <2>3. OthersAlone(t)
    BY <1>0, <2>1, OthersKeep DEF OthersAlone
  <2>4. /\ w \in Content(th[t].wakes) /\ Once(Tail(th[t].wakes))
        /\ Content(Tail(th[t].wakes)) = Content(th[t].wakes) \ {w}
    BY <1>0, <1>2, TailContent
  <2>5. w \in Wakes
    BY <1>0, <1>2
  <2>6. Waiting(t)' = Waiting(t) \ {w} /\ w \in Waiting(t) /\ Hand(t)' = {}
    BY <1>0, <2>2, <2>4, SmallContent DEF Waiting, Hand, At
  <2>7. th'[t].pc = "flush" /\ Once(th'[t].wakes)
    BY <2>2, <2>4
  <2>8. \/ w \in Futs /\ event' = [event EXCEPT ![w] = TRUE] /\ UNCHANGED scheduled
        \/ w \in Callbacks /\ scheduled' = [scheduled EXCEPT ![w] = @ + 1] /\ UNCHANGED event
    BY <1>2 DEF Flush
  <2> HIDE DEF w
  <2>9. CASE w \in Futs
    <3>1. event' = [event EXCEPT ![w] = TRUE] /\ UNCHANGED scheduled /\ w \notin Callbacks
      BY <2>5, <2>8, <2>9, WakesSplit
    <3>2. Owed(t) = Owed(t)' \cup {w} /\ Carried(t)' = Carried(t)
      BY <1>0, <2>2, <2>6, <2>9, <3>1 DEF Owed, Late, Carried, At
    <3> QED
      BY <1>0, <2>3, <2>6, <2>7, <2>9, <3>1, <3>2 DEF At
  <2>10. CASE w \in Callbacks
    <3>1. scheduled' = [scheduled EXCEPT ![w] = @ + 1] /\ UNCHANGED event /\ w \notin Futs
      BY <2>5, <2>8, <2>10, WakesSplit
    <3>2. Owed(t)' = Owed(t) /\ Carried(t)' = Carried(t) \ {w} /\ w \in Carried(t)
      BY <1>0, <2>2, <2>6, <2>10, <3>1 DEF Owed, Late, Carried, At
    <3> QED
      BY <1>0, <2>3, <2>6, <2>7, <3>1, <3>2 DEF At
  <2> QED
    BY <2>5, <2>9, <2>10, WakesSplit
<1> QED
  BY <1>1, <1>2

LEMMA QuietEffect ==
  ASSUME UNCHANGED <<th, pending>>
  PROVE  \A u \in Threads :
           Owed(u)' = Owed(u) /\ Hand(u)' = Hand(u) /\ Late(u)' = Late(u) /\ Carried(u)' = Carried(u)
  BY DEF Owed, Hand, Late, Carried, Waiting, At
-----------------------------------------------------------------------------
\* The wakes.

WakeInv == EventsFollow /\ WakesKept /\ RegionsHold

LEMMA OwedTyped == ASSUME NEW t \in Threads PROVE Owed(t) \subseteq Futs
  BY DEF Owed

LEMMA WakeInvStep == Typed /\ WakeInv /\ PlacesOnce /\ [Next]_vars => WakeInv'
<1> SUFFICES ASSUME Typed, WakeInv, PlacesOnce, [Next]_vars PROVE WakeInv'
  OBVIOUS
<1> USE DEF WakeInv, Done, vars, futVars, cbVars, tlsVars
<1>d. \A t \in Threads : depth[t] \in Nat
  BY DepthAssumption DEF Typed
<1>1. ASSUME NEW t \in Threads, NEW f \in Futs, NEW s \in {"FINISHED", "CANCELLED"},
             Complete(t, f, s)
      PROVE  WakeInv'
  <2>0. /\ OthersAlone(t) /\ Owed(t)' = Owed(t) \cup {f} /\ th'[t].pc = "wake"
        /\ UNCHANGED <<event, depth, pending, aw>> /\ ~Done(f) /\ Done(f)'
        /\ \A g \in Futs : g # f => state'[g] = state[g]
    BY <1>1, CompleteEffect DEF Complete, Typed
  <2>1. EventsFollow'
    <3>1. \A g \in Futs : Done(g) => Done(g)'
      BY <2>0
    <3>2. \A u \in Threads : Owed(u)' \subseteq Owed(u) \cup {f}
      BY <2>0 DEF OthersAlone
    <3> QED
      BY <2>0, <3>1, <3>2, OwedTyped DEF EventsFollow
  <2>2. WakesKept'
    <3>1. \A u \in Threads : Owed(u) \subseteq Owed(u)'
      BY <2>0 DEF OthersAlone
    <3> QED
      BY <2>0, <3>1 DEF WakesKept
  <2>3. \A u \in Threads : \/ heldBy'[u] = heldBy[u]
                           \/ u = t /\ depth[t] > 0 /\ heldBy'[u] \cap Futs \subseteq heldBy[u] \cup {f}
    <3>1. heldBy' = heldBy \/ (depth[t] > 0 /\ heldBy' = [heldBy EXCEPT ![t] = @ \cup ({f} \cup ToSet(callbacks[f]))])
      BY <1>1 DEF Complete, Held
    <3>2. callbacks[f] \in Seq(Callbacks)
      BY DEF Typed
    <3>3. ToSet(callbacks[f]) \cap Futs = {}
      BY <3>2, ToSetContent, ContentTyped, WakesSplit
    <3> QED
      BY <3>1, <3>3 DEF Typed
  <2>4. \A u \in Threads : f \notin Owed(u) /\ f \notin heldBy[u] /\ ~event[f]
    BY <2>0 DEF EventsFollow, RegionsHold
  <2>5. \A u \in Threads : Owed(u)' = Owed(u) \/ (u = t /\ Owed(u)' = Owed(u) \cup {f})
    BY <2>0 DEF OthersAlone
  <2>6. \A u \in Threads : At(u, "flush")' => At(u, "flush")
    BY <2>0 DEF OthersAlone, At
  <2>7. RegionsHold'
    <3> SUFFICES ASSUME NEW u \in Threads
                 PROVE  /\ depth'[u] = 0 => heldBy'[u] = {}
                        /\ At(u, "flush")' => depth'[u] = 0
                        /\ \A g \in heldBy'[u] \cap Futs :
                             /\ state'[g] # "PENDING" /\ ~event'[g]
                             /\ \A v \in Threads : v # u => g \notin Owed(v)'
      BY DEF RegionsHold
    <3>1. depth'[u] = 0 => heldBy'[u] = {}
      BY <1>d, <2>0, <2>3 DEF RegionsHold
    <3>2. At(u, "flush")' => depth'[u] = 0
      BY <2>0, <2>6 DEF RegionsHold
    <3>3. ASSUME NEW g \in heldBy'[u] \cap Futs
          PROVE  /\ state'[g] # "PENDING" /\ ~event'[g]
                 /\ \A v \in Threads : v # u => g \notin Owed(v)'
      <4>1. CASE g = f
        BY <2>0, <2>3, <2>4, <2>5, <4>1 DEF RegionsHold
      <4>2. CASE g # f
        <5>1. g \in heldBy[u] \cap Futs
          BY <2>3, <3>3, <4>2
        <5> QED
          BY <2>0, <2>5, <4>2, <5>1 DEF RegionsHold
      <4> QED
        BY <4>1, <4>2
    <3> QED
      BY <3>1, <3>2, <3>3
  <2> QED
    BY <2>1, <2>2, <2>7
<1>2. ASSUME NEW t \in Threads, Wake(t) PROVE WakeInv'
  <2> DEFINE f == th[t].f
  <2>0. /\ OthersAlone(t) /\ f \in Futs /\ f \in Owed(t)
        /\ depth[t] = 0 => Owed(t) = Owed(t)' \cup {f}
        /\ depth[t] > 0 => Owed(t)' = Owed(t)
        /\ th'[t].pc = "callbacks"
        /\ UNCHANGED <<state, depth, heldBy, aw>>
    BY <1>2, WakeEffect DEF Wake
  <2>1. \/ depth[t] = 0 /\ event' = [event EXCEPT ![f] = TRUE] /\ UNCHANGED pending
        \/ depth[t] > 0 /\ UNCHANGED event
           /\ \A u \in Threads : u # t => pending'[u] = pending[u]
    BY <1>2 DEF Wake, Typed
  <2> HIDE DEF f
  <2>2. \A u \in Threads : Owed(u)' \subseteq Owed(u) /\ (At(u, "flush")' => At(u, "flush"))
    BY <1>d, <2>0 DEF OthersAlone, At
  <2>3. \A g \in Futs : event'[g] => event[g] \/ (g = f /\ depth[t] = 0)
    BY <2>0, <2>1 DEF Typed
  <2>4. EventsFollow'
    BY <2>0, <2>1, <2>2, <2>3 DEF EventsFollow, Typed, AwaiterStates
  <2>5. WakesKept'
    <3>1. ASSUME NEW g \in Futs, Done(g)' PROVE event'[g] \/ \E u \in Threads : g \in Owed(u)'
      <4>1. event[g] \/ \E u \in Threads : g \in Owed(u)
        BY <2>0, <3>1 DEF WakesKept
      <4> QED
        BY <1>d, <2>0, <2>1, <4>1 DEF OthersAlone, Typed
    <3> QED
      BY <2>0, <2>1, <3>1 DEF WakesKept
  <2>6. RegionsHold'
    BY <2>0, <2>2, <2>3 DEF RegionsHold, Typed
  <2> QED
    BY <2>4, <2>5, <2>6
<1>8. ASSUME NEW t \in Threads, Flush(t) PROVE WakeInv'
  <2>0. OthersAlone(t) /\ UNCHANGED <<state, depth, heldBy, aw, pending>> /\ th[t].pc = "flush"
    BY <1>8, FlushEffect DEF Flush
  <2>a. \A u \in Threads : At(u, "flush")' => At(u, "flush")
    BY <2>0 DEF OthersAlone, At
  <2>1. CASE Owed(t)' = Owed(t) /\ UNCHANGED event
    <3>1. \A u \in Threads : Owed(u)' = Owed(u) /\ (At(u, "flush")' => At(u, "flush"))
      BY <2>0, <2>1, <2>a DEF OthersAlone
    <3> QED
      BY <2>0, <2>1, <3>1 DEF EventsFollow, WakesKept, RegionsHold
  <2>2. ASSUME NEW f \in Futs, Owed(t) = Owed(t)' \cup {f}, event' = [event EXCEPT ![f] = TRUE]
        PROVE  WakeInv'
    <3>1. \A u \in Threads : Owed(u)' \subseteq Owed(u) /\ (At(u, "flush")' => At(u, "flush"))
      BY <2>0, <2>2, <2>a DEF OthersAlone
    <3>2. \A g \in Futs : (event'[g] <=> event[g] \/ g = f)
      BY <2>2 DEF Typed
    <3>3. heldBy[t] = {}
      BY <2>0 DEF RegionsHold, At
    <3>4. EventsFollow'
      BY <2>0, <2>2, <3>1, <3>2 DEF EventsFollow, Typed, AwaiterStates
    <3>5. WakesKept'
      <4>1. ASSUME NEW g \in Futs, Done(g)' PROVE event'[g] \/ \E u \in Threads : g \in Owed(u)'
        BY <2>0, <2>2, <3>2, <4>1 DEF WakesKept, OthersAlone
      <4> QED
        BY <2>0, <4>1 DEF WakesKept
    <3>6. RegionsHold'
      BY <2>0, <2>2, <3>1, <3>2, <3>3 DEF RegionsHold, Typed
    <3> QED
      BY <3>4, <3>5, <3>6
  <2> QED
    BY <1>8, <2>1, <2>2, FlushEffect
<1>7. ASSUME NEW t \in Threads, Leave(t) PROVE WakeInv'
  <2>0. /\ OthersAlone(t) /\ UNCHANGED <<state, event, aw>> /\ Owed(t)' = Owed(t)
        /\ th[t].pc = "idle"
        /\ depth[t] = 1 => th'[t].pc = "flush" /\ pending'[t] = <<>>
        /\ depth[t] # 1 => th' = th /\ pending' = pending
    BY <1>7, LeaveEffect DEF Leave
  <2>1. /\ depth[t] > 0 /\ depth'[t] = depth[t] - 1
        /\ \A u \in Threads : u # t => depth'[u] = depth[u]
        /\ depth[t] = 1 => heldBy'[t] = {}
        /\ \A u \in Threads : heldBy'[u] \in {heldBy[u], {}}
        /\ \A u \in Threads : u # t => pending'[u] = pending[u]
    BY <1>7 DEF Leave, Typed
  <2>2. \A u \in Threads : Owed(u)' = Owed(u)
    BY <2>0 DEF OthersAlone
  <2>3. EventsFollow'
    BY <2>0, <2>2 DEF EventsFollow
  <2>4. WakesKept'
    BY <1>d, <2>0, <2>1, <2>2 DEF WakesKept
  <2>5. RegionsHold'
    BY <1>d, <2>0, <2>1, <2>2 DEF RegionsHold, OthersAlone, At
  <2> QED
    BY <2>3, <2>4, <2>5
<1>6. ASSUME NEW t \in Threads, Enter(t) PROVE WakeInv'
  <2>1. \A u \in Threads : Owed(u)' = Owed(u)
    BY <1>6, QuietEffect DEF Enter
  <2>2. depth'[t] = depth[t] + 1 /\ \A u \in Threads : u # t => depth'[u] = depth[u]
    BY <1>6 DEF Enter, Typed
  <2> QED
    BY <1>6, <1>d, <2>1, <2>2 DEF Enter, EventsFollow, WakesKept, RegionsHold, At
<1>a. ASSUME \A u \in Threads : Owed(u)' = Owed(u) /\ (At(u, "flush")' => At(u, "flush")),
             UNCHANGED <<state, event, tlsVars>>, EventsFollow'
      PROVE  WakeInv'
  BY <1>a DEF WakesKept, RegionsHold
<1>b. ASSUME NEW t \in Threads, Owed(t)' = Owed(t), OthersAlone(t), ~At(t, "flush")',
             UNCHANGED <<state, event, depth, aw>>,
             pending'[t] # <<>> => depth[t] > 0,
             \A u \in Threads : \/ heldBy'[u] = heldBy[u]
                                \/ depth[u] > 0 /\ heldBy'[u] \cap Futs = heldBy[u] \cap Futs
      PROVE  WakeInv'
  <2>1. \A u \in Threads : Owed(u)' = Owed(u) /\ (At(u, "flush")' => At(u, "flush"))
    BY <1>b DEF OthersAlone, At
  <2>2. \A u \in Threads : pending'[u] # <<>> => depth[u] > 0
    BY <1>b DEF OthersAlone, WakesKept
  <2>3. EventsFollow' /\ WakesKept'
    BY <1>b, <2>1, <2>2 DEF EventsFollow, WakesKept
  <2>4. RegionsHold'
    BY <1>b, <2>1 DEF RegionsHold
  <2> QED
    BY <2>3, <2>4
<1>3. ASSUME NEW t \in Threads, CallSoon(t) PROVE WakeInv'
  <2>1. OthersAlone(t) /\ Owed(t)' = Owed(t) /\ ~At(t, "flush")'
    BY <1>3, CallSoonEffect DEF At
  <2>2. pending'[t] # <<>> => depth[t] > 0
    BY <1>3, <1>d, CallSoonEffect DEF WakesKept
  <2> QED
    BY <1>3, <1>b, <2>1, <2>2 DEF CallSoon
<1>4. ASSUME NEW t \in Threads, NEW f \in Futs, NEW c \in Callbacks, AddDoneCallback(t, f, c)
      PROVE  WakeInv'
  <2>1. OthersAlone(t) /\ Owed(t)' = Owed(t) /\ ~At(t, "flush")'
    BY <1>4, AddEffect DEF At, AddDoneCallback
  <2>2. \A u \in Threads : \/ heldBy'[u] = heldBy[u]
                           \/ depth[u] > 0 /\ heldBy'[u] \cap Futs = heldBy[u] \cap Futs
    <3>1. c \notin Futs
      BY WakesSplit DEF Wakes
    <3>2. heldBy' = heldBy \/ (depth[t] > 0 /\ heldBy' = [heldBy EXCEPT ![t] = @ \cup {c}])
      BY <1>4 DEF AddDoneCallback, Held
    <3> QED
      BY <3>1, <3>2 DEF Typed
  <2> QED
    BY <1>4, <1>b, <2>1, <2>2 DEF AddDoneCallback, WakesKept
<1>5. ASSUME NEW t \in Threads, NEW f \in Futs, NEW c \in Callbacks, RemoveDoneCallback(t, f, c)
      PROVE  WakeInv'
  <2>1. \A u \in Threads : Owed(u)' = Owed(u) /\ (At(u, "flush")' => At(u, "flush"))
    BY <1>5, QuietEffect DEF RemoveDoneCallback, At
  <2> QED
    BY <1>5, <1>a, <2>1 DEF RemoveDoneCallback, EventsFollow
<1>c. ASSUME UNCHANGED <<futVars, tlsVars, th>>,
             \A a \in Awaiters : aw'[a].pc = "read" => event[aw'[a].f]
      PROVE  WakeInv'
  <2>1. \A u \in Threads : Owed(u)' = Owed(u) /\ (At(u, "flush")' => At(u, "flush"))
    BY <1>c, QuietEffect DEF At
  <2> QED
    BY <1>c, <1>a, <2>1 DEF EventsFollow
<1>9. ASSUME NEW a \in Awaiters, NEW f \in Futs, Await(a, f) PROVE WakeInv'
  <2>1. \A b \in Awaiters : aw'[b].pc = "read" => event[aw'[b].f]
    BY <1>9 DEF Await, EventsFollow, Typed
  <2> QED
    BY <1>9, <1>c, <2>1 DEF Await
<1>10. ASSUME NEW a \in Awaiters, Resume(a) PROVE WakeInv'
  <2>1. aw' = [aw EXCEPT ![a] = [pc |-> "read", f |-> aw[a].f]]
    BY <1>10, Shapes DEF Resume
  <2>2. \A b \in Awaiters : aw'[b].pc = "read" => event[aw'[b].f]
    BY <1>10, <2>1 DEF Resume, EventsFollow, Typed
  <2> QED
    BY <1>10, <1>c, <2>2 DEF Resume
<1>11. ASSUME NEW a \in Awaiters, Read(a) PROVE WakeInv'
  <2>1. \E l \in {"result", "cancelled", "invalid"} :
          aw' = [aw EXCEPT ![a] = [pc |-> l, f |-> aw[a].f]]
    BY <1>11, Shapes DEF Read
  <2>2. \A b \in Awaiters : aw'[b].pc = "read" => event[aw'[b].f]
    BY <1>11, <2>1 DEF EventsFollow, Typed
  <2> QED
    BY <1>11, <1>c, <2>2 DEF Read
<1>12. CASE UNCHANGED vars
  <2>1. \A b \in Awaiters : aw'[b].pc = "read" => event[aw'[b].f]
    BY <1>12 DEF EventsFollow
  <2> QED
    BY <1>12, <1>c, <2>1
<1>13. CASE Close
  <2>1. \A b \in Awaiters : aw'[b].pc = "read" => event[aw'[b].f]
    BY <1>13 DEF Close, EventsFollow
  <2> QED
    BY <1>13, <1>c, <2>1 DEF Close
<1> QED
  BY <1>1, <1>2, <1>3, <1>4, <1>5, <1>6, <1>7, <1>8, <1>9, <1>10, <1>11, <1>12, <1>13
     DEF Next, Continue
-----------------------------------------------------------------------------
\* The callbacks.

CallbackInv == ListsApart /\ CarriedApart /\ NoneLost /\ CallbacksHeld

LEMMA CarriedTyped == ASSUME Typed, NEW t \in Threads PROVE Carried(t) \subseteq Callbacks
<1>1. th[t].pc \in {"wake", "callbacks"} => Content(th[t].cbs) \subseteq Callbacks
  BY ContentTyped, Shapes DEF At
<1> QED
  BY <1>1 DEF Hand, Late, Carried

LEMMA ListTyped == ASSUME Typed, NEW f \in Futs PROVE Content(callbacks[f]) \subseteq Callbacks
  BY ContentTyped DEF Typed

LEMMA PlacesOnceStep == IInv /\ [Next]_vars => PlacesOnce'
<1> SUFFICES ASSUME IInv, [Next]_vars PROVE PlacesOnce'
  OBVIOUS
<1> USE DEF IInv, vars, futVars, cbVars, tlsVars
<1> DEFINE Fine(t) ==
      /\ th[t].pc \in {"wake", "callbacks"} => Once(th[t].cbs)
      /\ Once(pending[t])
      /\ At(t, "wake") => th[t].f \notin Content(pending[t])
      /\ At(t, "flush") => Once(th[t].wakes) /\ pending[t] = <<>>
      /\ Hand(t) \cap Late(t) = {}
<1>a. ASSUME NEW t \in Threads, OthersAlone(t), Fine(t)' PROVE PlacesOnce'
  <2>1. ASSUME NEW u \in Threads, u # t PROVE Fine(u)'
    <3>1. th'[u] = th[u] /\ pending'[u] = pending[u] /\ Hand(u)' = Hand(u) /\ Late(u)' = Late(u)
      BY <1>a, <2>1 DEF OthersAlone
    <3> QED
      BY <3>1 DEF PlacesOnce, At
  <2> QED
    BY <1>a, <2>1 DEF PlacesOnce
<1>b. ASSUME UNCHANGED <<th, pending>> PROVE PlacesOnce'
  BY <1>b, QuietEffect DEF PlacesOnce, At
<1>1. ASSUME NEW t \in Threads, NEW f \in Futs, NEW s \in {"FINISHED", "CANCELLED"},
             Complete(t, f, s)
      PROVE  PlacesOnce'
  <2>0. /\ OthersAlone(t) /\ Hand(t)' = Content(callbacks[f]) /\ Late(t)' = Late(t)
        /\ th'[t].pc = "wake" /\ th'[t].cbs = callbacks[f] /\ th'[t].f = f
        /\ pending' = pending /\ ~Done(f)
    BY <1>1, CompleteEffect DEF Complete, Done
  <2>1. Once(callbacks[f])
    BY DEF ListsApart
  <2>2. f \notin Content(pending[t])
    BY <2>0 DEF EventsFollow, Owed, Waiting
  <2>3. Content(callbacks[f]) \cap Late(t) = {}
    BY <2>0 DEF ListsApart, CarriedApart, Carried
  <2>4. Fine(t)'
    BY <2>0, <2>1, <2>2, <2>3 DEF PlacesOnce, At
  <2> QED
    BY <1>a, <2>0, <2>4
<1>2. ASSUME NEW t \in Threads, Wake(t) PROVE PlacesOnce'
  <2>0. /\ OthersAlone(t) /\ Hand(t)' = Hand(t) /\ Late(t)' = Late(t) /\ th[t].f \in Futs
        /\ th[t].pc = "wake" /\ th'[t].pc = "callbacks" /\ th'[t].cbs = th[t].cbs
    BY <1>2, WakeEffect
  <2>1. pending' = pending \/ pending' = [pending EXCEPT ![t] = Append(pending[t], th[t].f)]
    BY <1>2 DEF Wake
  <2>2. pending'[t] = pending[t] \/ pending'[t] = Append(pending[t], th[t].f)
    BY <2>1 DEF Typed
  <2>3. Once(pending[t]) /\ th[t].f \notin Content(pending[t]) /\ pending[t] \in Seq(Wakes)
    BY <2>0 DEF PlacesOnce, Typed, At
  <2>4. Once(pending'[t])
    <3>1. th[t].f \in Wakes
      BY <2>0 DEF Wakes
    <3>2. Once(Append(pending[t], th[t].f))
      BY <2>3, <3>1, AppendContent
    <3> QED
      BY <2>2, <2>3, <3>2
  <2>5. Fine(t)'
    BY <2>0, <2>4 DEF PlacesOnce, At
  <2> QED
    BY <1>a, <2>0, <2>5
<1>3. ASSUME NEW t \in Threads, CallSoon(t) PROVE PlacesOnce'
  <2>1. /\ OthersAlone(t) /\ th'[t].pc \in {"idle", "callbacks"}
        /\ th'[t].pc = "callbacks" => Once(th'[t].cbs)
        /\ Once(pending'[t]) /\ Hand(t)' \cap Late(t)' = {}
    BY <1>3, CallSoonEffect
  <2>2. Fine(t)'
    BY <2>1 DEF At
  <2> QED
    BY <1>a, <2>1, <2>2
<1>4. ASSUME NEW t \in Threads, NEW f \in Futs, NEW c \in Callbacks, AddDoneCallback(t, f, c)
      PROVE  PlacesOnce'
  <2>0. /\ OthersAlone(t) /\ Late(t)' = Late(t) /\ pending' = pending /\ added[c] = NoFuture
        /\ Done(f) => Hand(t)' = {c} /\ th'[t].cbs = <<c>> /\ th'[t].pc = "callbacks"
        /\ ~Done(f) => th' = th
    BY <1>4, AddEffect DEF AddDoneCallback
  <2>1. CASE Done(f)
    <3>1. c \notin Late(t)
      BY <2>0 DEF CarriedApart, Carried
    <3>2. Fine(t)'
      BY <2>0, <2>1, <3>1, SmallContent DEF PlacesOnce, At
    <3> QED
      BY <1>a, <2>0, <3>2
  <2>2. CASE ~Done(f)
    BY <1>b, <2>0, <2>2
  <2> QED
    BY <2>1, <2>2
<1>5. ASSUME NEW t \in Threads, NEW f \in Futs, NEW c \in Callbacks, RemoveDoneCallback(t, f, c)
      PROVE  PlacesOnce'
  BY <1>5, <1>b DEF RemoveDoneCallback
<1>6. ASSUME NEW t \in Threads, Enter(t) PROVE PlacesOnce'
  BY <1>6, <1>b DEF Enter
<1>7. ASSUME NEW t \in Threads, Leave(t) PROVE PlacesOnce'
  <2>0. /\ OthersAlone(t) /\ Hand(t)' = {}
        /\ depth[t] = 1 => th'[t].pc = "flush" /\ pending'[t] = <<>> /\ th'[t].wakes = pending[t]
        /\ depth[t] # 1 => th' = th /\ pending' = pending
    BY <1>7, LeaveEffect
  <2>1. CASE depth[t] = 1
    <3>1. Fine(t)'
      BY <2>0, <2>1, SmallContent DEF PlacesOnce, At
    <3> QED
      BY <1>a, <2>0, <3>1
  <2>2. CASE depth[t] # 1
    BY <1>b, <2>0, <2>2
  <2> QED
    BY <2>1, <2>2
<1>8. ASSUME NEW t \in Threads, Flush(t) PROVE PlacesOnce'
  <2>0. /\ OthersAlone(t) /\ Hand(t)' = {} /\ th[t].pc = "flush" /\ th'[t].pc \in {"idle", "flush"}
        /\ th'[t].pc = "flush" => Once(th'[t].wakes)
        /\ pending' = pending
    BY <1>8, FlushEffect DEF Flush
  <2>1. pending[t] = <<>>
    BY <2>0 DEF PlacesOnce, At
  <2>2. Fine(t)'
    BY <2>0, <2>1, SmallContent DEF At
  <2> QED
    BY <1>a, <2>0, <2>2
<1>9. CASE \E a \in Awaiters : Resume(a) \/ Read(a) \/ \E f \in Futs : Await(a, f)
  BY <1>9, <1>b DEF Resume, Read, Await
<1>10. CASE Close \/ UNCHANGED vars
  BY <1>10, <1>b DEF Close
<1> QED
  BY <1>1, <1>2, <1>3, <1>4, <1>5, <1>6, <1>7, <1>8, <1>9, <1>10 DEF Next, Continue

LEMMA CallbackInvStep == IInv /\ [Next]_vars => CallbackInv'
<1> SUFFICES ASSUME IInv, [Next]_vars PROVE CallbackInv'
  OBVIOUS
<1> USE FuturesAssumption DEF IInv, CallbackInv, Done, vars, futVars, cbVars, tlsVars
<1>0. \A t \in Threads : depth[t] \in Nat
  BY DepthAssumption DEF Typed
\* Nothing of what the threads carry changes.
<1>a. ASSUME \A t \in Threads : /\ Carried(t)' = Carried(t)
                                /\ heldBy'[t] \in {heldBy[t], {}},
             UNCHANGED <<state, callbacks, added, removed, scheduled, dropped>>,
             closed => closed'
      PROVE  CallbackInv'
  <2>1. ListsApart'
    BY <1>a DEF ListsApart
  <2>2. CarriedApart'
    <3>2. ASSUME NEW t \in Threads, NEW c \in Carried(t)'
          PROVE  /\ added'[c] # NoFuture /\ Done(added[c])' /\ c \notin removed'
                 /\ scheduled'[c] = 0 /\ c \notin dropped'
      BY <1>a, <3>2 DEF CarriedApart
    <3>3. ASSUME NEW t \in Threads, NEW u \in Threads, t # u PROVE Carried(t)' \cap Carried(u)' = {}
      BY <1>a, <3>3 DEF CarriedApart
    <3> QED
      BY <3>2, <3>3 DEF CarriedApart
  <2>3. NoneLost'
    <3>1. ASSUME NEW c \in Callbacks, \E t \in Threads : c \in Carried(t)
          PROVE  \E t \in Threads : c \in Carried(t)'
      BY <1>a, <3>1
    <3> QED
      BY <1>a, <3>1 DEF NoneLost
  <2>4. CallbacksHeld'
    BY <1>a DEF CallbacksHeld
  <2> QED
    BY <2>1, <2>2, <2>3, <2>4
\* Thread t, outside any region, gives c to the runtime.
<1>b. ASSUME NEW t \in Threads, NEW c \in Carried(t), Carried(t)' = Carried(t) \ {c},
             OthersAlone(t), depth[t] = 0, scheduled' = [scheduled EXCEPT ![c] = @ + 1],
             UNCHANGED <<state, callbacks, added, removed, dropped, heldBy, closed>>
      PROVE  CallbackInv'
  <2>1. /\ c \in Callbacks /\ added[c] \in Futs /\ Done(added[c]) /\ c \notin removed
        /\ scheduled[c] = 0 /\ c \notin dropped
        /\ \A u \in Threads : u # t => c \notin Carried(u)
    <3>1. c \in Callbacks
      BY <1>b, CarriedTyped
    <3> QED
      BY <1>b, <3>1 DEF CarriedApart, Typed
  <2>2. scheduled'[c] = 1 /\ \A d \in Callbacks : d # c => scheduled'[d] = scheduled[d]
    BY <1>b, <2>1 DEF Typed
  <2>3. ListsApart'
    <3>1. \A f \in Futs : c \notin Content(callbacks[f])
      BY <2>1 DEF ListsApart
    <3> QED
      BY <1>b, <2>2, <3>1, ListTyped DEF ListsApart
  <2>4. \A u \in Threads : Carried(u)' \subseteq Carried(u) /\ c \notin Carried(u)'
    BY <1>b, <2>1 DEF OthersAlone
  <2>5. CarriedApart'
    BY <1>b, <2>2, <2>4, CarriedTyped DEF CarriedApart
  <2>6. \A u \in Threads, d \in Callbacks : d # c /\ d \in Carried(u) => d \in Carried(u)'
    BY <1>b DEF OthersAlone
  <2>7. NoneLost'
    <3> SUFFICES ASSUME NEW d \in Callbacks
                 PROVE  /\ added[d] = NoFuture => scheduled'[d] = 0
                        /\ d \in removed => added[d] # NoFuture /\ scheduled'[d] = 0
                        /\ d \in dropped => added[d] # NoFuture /\ Done(added[d]) /\ scheduled'[d] = 0
                        /\ scheduled'[d] \in 0 .. 1
                        /\ added[d] # NoFuture /\ d \notin removed
                             => \/ d \in Content(callbacks[added[d]])
                                \/ \E u \in Threads : d \in Carried(u)'
                                \/ scheduled'[d] = 1
                                \/ d \in dropped
      BY <1>b DEF NoneLost
    <3>1. CASE d = c
      BY <2>1, <2>2, <3>1
    <3>2. CASE d # c
      <4>1. scheduled'[d] = scheduled[d]
        BY <2>2, <3>2
      <4>2. (\E u \in Threads : d \in Carried(u)) => \E u \in Threads : d \in Carried(u)'
        BY <2>6, <3>2
      <4> QED
        BY <4>1, <4>2 DEF NoneLost
    <3> QED
      BY <3>1, <3>2
  <2>8. CallbacksHeld'
    <3>1. heldBy[t] = {}
      BY <1>b DEF RegionsHold
    <3> QED
      BY <1>b, <3>1 DEF CallbacksHeld, OthersAlone
  <2> QED
    BY <2>3, <2>5, <2>7, <2>8
<1>1. ASSUME NEW t \in Threads, NEW f \in Futs, NEW s \in {"FINISHED", "CANCELLED"},
             Complete(t, f, s)
      PROVE  CallbackInv'
  <2>b. OthersAlone(t) /\ Carried(t)' = Carried(t) \cup Content(callbacks[f])
    <3>1. OthersAlone(t) /\ Hand(t) = {} /\ Hand(t)' = Content(callbacks[f]) /\ Late(t)' = Late(t)
      BY <1>1, CompleteEffect
    <3> QED
      BY <3>1 DEF Carried
  <2>c. /\ UNCHANGED <<added, removed, scheduled, dropped, closed>> /\ ~Done(f) /\ Done(f)'
        /\ \A g \in Futs : g # f => state'[g] = state[g] /\ callbacks'[g] = callbacks[g]
        /\ callbacks'[f] = <<>>
    BY <1>1 DEF Complete, Typed
  <2>0. /\ OthersAlone(t) /\ Carried(t)' = Carried(t) \cup Content(callbacks[f])
        /\ UNCHANGED <<added, removed, scheduled, dropped, closed>> /\ ~Done(f) /\ Done(f)'
        /\ \A g \in Futs : g # f => state'[g] = state[g] /\ callbacks'[g] = callbacks[g]
        /\ callbacks'[f] = <<>>
    BY <2>b, <2>c
  <2>1. ListsApart'
    BY <2>0, SmallContent DEF ListsApart
  <2>2. \A u \in Threads : \A c \in Carried(u) : added[c] \in Futs \ {f}
    BY <2>0, CarriedTyped DEF CarriedApart, Typed
  <2>a. \A c \in Content(callbacks[f]) : c \in Callbacks /\ added[c] = f /\ c \notin removed
                                         /\ scheduled[c] = 0 /\ c \notin dropped
    <3>1. ASSUME NEW c \in Content(callbacks[f])
          PROVE  c \in Callbacks /\ added[c] = f /\ c \notin removed /\ scheduled[c] = 0
      BY ListTyped DEF ListsApart
    <3>2. ASSUME NEW c \in Content(callbacks[f]) PROVE c \notin dropped
      BY <2>0, <3>1 DEF NoneLost
    <3> QED
      BY <3>1, <3>2
  <2>3. CarriedApart'
    <3>1. \A u \in Threads : \A c \in Carried(u)' : c \in Carried(u) \/ (u = t /\ c \in Content(callbacks[f]))
      BY <2>0 DEF OthersAlone
    <3>2. ASSUME NEW u \in Threads, NEW c \in Carried(u)'
          PROVE  /\ added'[c] # NoFuture /\ Done(added[c])' /\ c \notin removed'
                 /\ scheduled'[c] = 0 /\ c \notin dropped'
      <4>1. CASE c \in Content(callbacks[f])
        BY <2>0, <2>a, <4>1
      <4>2. CASE c \in Carried(u)
        BY <2>0, <2>2, <4>2 DEF CarriedApart
      <4> QED
        BY <3>1, <3>2, <4>1, <4>2
    <3>3. \A u \in Threads : Carried(u) \cap Content(callbacks[f]) = {}
      BY <2>2, <2>a
    <3>4. \A u, v \in Threads : u # v => Carried(u)' \cap Carried(v)' = {}
      BY <3>1, <3>3 DEF CarriedApart
    <3> QED
      BY <3>2, <3>4 DEF CarriedApart
  <2>4. NoneLost'
    <3>1. ASSUME NEW c \in Callbacks, added[c] # NoFuture, c \notin removed
          PROVE  \/ c \in Content(callbacks'[added[c]])
                 \/ \E u \in Threads : c \in Carried(u)'
                 \/ scheduled[c] = 1
                 \/ c \in dropped
      <4>1. CASE c \in Content(callbacks[added[c]])
        <5>1. added[c] \in Futs
          BY <3>1 DEF Typed
        <5> QED
          BY <2>0, <4>1, <5>1
      <4>2. ASSUME NEW u \in Threads, c \in Carried(u) PROVE \E v \in Threads : c \in Carried(v)'
        BY <2>0, <4>2 DEF OthersAlone
      <4> QED
        BY <3>1, <4>1, <4>2 DEF NoneLost
    <3>2. ASSUME NEW c \in Callbacks, c \in dropped PROVE Done(added[c])'
      <4>1. added[c] \in Futs /\ Done(added[c])
        BY <3>2 DEF NoneLost, Typed
      <4> QED
        BY <2>0, <4>1
    <3> QED
      BY <2>0, <3>1, <3>2 DEF NoneLost
  <2>5. CallbacksHeld'
    <3>1. heldBy' = heldBy \/ heldBy' = [heldBy EXCEPT ![t] = @ \cup ({f} \cup ToSet(callbacks[f]))]
      BY <1>1 DEF Complete, Held
    <3>2. callbacks[f] \in Seq(Callbacks) /\ f \notin Callbacks
      BY WakesSplit DEF Typed, Wakes
    <3>3. ToSet(callbacks[f]) = Content(callbacks[f])
      BY <3>2, ToSetContent
    <3>4. \A u \in Threads : heldBy'[u] \cap Callbacks \subseteq Carried(u)' \cup dropped
      <4> SUFFICES ASSUME NEW u \in Threads, NEW c \in heldBy'[u] \cap Callbacks
                   PROVE  c \in Carried(u)' \cup dropped
        OBVIOUS
      <4>1. c \in heldBy[u] \/ (u = t /\ c \in Content(callbacks[f]))
        BY <3>1, <3>2, <3>3 DEF Typed
      <4>2. Carried(u) \subseteq Carried(u)'
        BY <2>0 DEF OthersAlone
      <4> QED
        BY <2>0, <4>1, <4>2 DEF CallbacksHeld
    <3> QED
      BY <2>0, <3>4 DEF CallbacksHeld
  <2> QED
    BY <2>1, <2>3, <2>4, <2>5
<1>2. ASSUME NEW t \in Threads, Wake(t) PROVE CallbackInv'
  <2>1. \A u \in Threads : Carried(u)' = Carried(u)
    BY <1>2, WakeEffect DEF OthersAlone, Carried
  <2> QED
    BY <1>2, <1>a, <2>1 DEF Wake
<1>3. ASSUME NEW t \in Threads, CallSoon(t) PROVE CallbackInv'
  <2>1. OthersAlone(t) /\ UNCHANGED <<futVars, added, removed, heldBy, closed>>
    BY <1>3, CallSoonEffect DEF CallSoon
  <2>2. CASE Carried(t)' = Carried(t) /\ UNCHANGED <<scheduled, dropped>>
    <3>1. \A u \in Threads : Carried(u)' = Carried(u)
      BY <2>1, <2>2 DEF OthersAlone
    <3> QED
      BY <2>1, <2>2, <3>1, <1>a
  <2>3. CASE closed /\ Carried(t)' = Late(t) /\ dropped' = dropped \cup Hand(t) /\ UNCHANGED scheduled
    <3>1. Hand(t) \subseteq Carried(t) /\ Hand(t) \cap Late(t) = {} /\ Carried(t) = Hand(t) \cup Late(t)
      BY DEF Carried, PlacesOnce
    <3>2. \A u \in Threads : Carried(u)' \subseteq Carried(u) /\ Carried(u)' \cap Hand(t) = {}
      BY <2>1, <2>3, <3>1 DEF OthersAlone, CarriedApart
    <3>3. ListsApart'
      BY <2>1, <2>3 DEF ListsApart
    <3>4. CarriedApart'
      <4>1. ASSUME NEW u \in Threads, NEW c \in Carried(u)'
            PROVE  /\ added'[c] # NoFuture /\ Done(added[c])' /\ c \notin removed'
                   /\ scheduled'[c] = 0 /\ c \notin dropped'
        BY <2>1, <2>3, <3>2, <4>1 DEF CarriedApart
      <4>2. \A u, v \in Threads : u # v => Carried(u)' \cap Carried(v)' = {}
        BY <3>2 DEF CarriedApart
      <4> QED
        BY <4>1, <4>2 DEF CarriedApart
    <3>5. NoneLost'
      <4>1. ASSUME NEW c \in Callbacks, NEW u \in Threads, c \in Carried(u)
            PROVE  c \in dropped' \/ \E v \in Threads : c \in Carried(v)'
        BY <2>1, <2>3, <3>1, <4>1 DEF OthersAlone
      <4>2. ASSUME NEW c \in Callbacks, c \in dropped'
            PROVE  added[c] # NoFuture /\ Done(added[c]) /\ scheduled[c] = 0
        BY <2>3, <3>1, <4>2 DEF NoneLost, CarriedApart
      <4>3. \A c \in dropped : c \in dropped'
        BY <2>3
      <4> QED
        BY <2>1, <2>3, <4>1, <4>2, <4>3 DEF NoneLost
    <3>6. CallbacksHeld'
      <4>1. \A u \in Threads : Carried(u) \subseteq Carried(u)' \cup dropped'
        BY <2>1, <2>3, <3>1 DEF OthersAlone
      <4> QED
        BY <2>1, <2>3, <4>1 DEF CallbacksHeld
    <3> QED
      BY <3>3, <3>4, <3>5, <3>6
  <2>4. ASSUME depth[t] = 0, UNCHANGED dropped, NEW c \in Carried(t), Carried(t)' = Carried(t) \ {c},
               scheduled' = [scheduled EXCEPT ![c] = @ + 1]
        PROVE  CallbackInv'
    BY <1>b, <2>1, <2>4
  <2> QED
    BY <1>3, <2>2, <2>3, <2>4, CallSoonEffect
<1>4. ASSUME NEW t \in Threads, NEW f \in Futs, NEW c \in Callbacks, AddDoneCallback(t, f, c)
      PROVE  CallbackInv'
  <2>0. /\ OthersAlone(t) /\ UNCHANGED <<state, removed, scheduled, dropped, closed>>
        /\ Done(f) => Carried(t)' = Carried(t) \cup {c} /\ callbacks' = callbacks
        /\ ~Done(f) => /\ Carried(t)' = Carried(t) /\ heldBy' = heldBy
                       /\ callbacks' = [callbacks EXCEPT ![f] = Append(@, c)]
        /\ added[c] = NoFuture /\ added'[c] = f
        /\ \A d \in Callbacks : d # c => added'[d] = added[d]
    <3>2. /\ OthersAlone(t) /\ UNCHANGED <<state, removed, scheduled, dropped, closed>>
          /\ added[c] = NoFuture /\ added' = [added EXCEPT ![c] = f]
      BY <1>4, AddEffect DEF AddDoneCallback
    <3>3. added'[c] = f /\ \A d \in Callbacks : d # c => added'[d] = added[d]
      BY <3>2 DEF Typed
    <3>4. Done(f) => Carried(t)' = Carried(t) \cup {c} /\ callbacks' = callbacks
      BY <1>4, AddEffect DEF AddDoneCallback, Carried
    <3>5. ~Done(f) => /\ Carried(t)' = Carried(t) /\ heldBy' = heldBy
                      /\ callbacks' = [callbacks EXCEPT ![f] = Append(@, c)]
      BY <1>4, AddEffect DEF AddDoneCallback, Carried
    <3> QED
      BY <3>2, <3>3, <3>4, <3>5
  <2>1. /\ \A u \in Threads : c \notin Carried(u)
        /\ \A g \in Futs : c \notin Content(callbacks[g])
        /\ c \notin removed /\ scheduled[c] = 0 /\ c \notin dropped
    BY <2>0 DEF CarriedApart, ListsApart, NoneLost
  <2>a. \A u \in Threads : \/ heldBy'[u] = heldBy[u]
                           \/ u = t /\ Done(f) /\ heldBy'[u] = heldBy[u] \cup {c}
    <3>1. heldBy' = heldBy \/ (Done(f) /\ heldBy' = [heldBy EXCEPT ![t] = @ \cup {c}])
      BY <1>4 DEF AddDoneCallback, Held
    <3> QED
      BY <3>1 DEF Typed
  <2>2. CASE Done(f)
    <3>1. \A u \in Threads : Carried(u)' = Carried(u) \/ (u = t /\ Carried(u)' = Carried(u) \cup {c})
      BY <2>0, <2>2 DEF OthersAlone
    <3>2. ListsApart'
      BY <2>0, <2>1, <2>2, ListTyped DEF ListsApart
    <3>3. CarriedApart'
      <4>2. ASSUME NEW u \in Threads, NEW d \in Carried(u)'
            PROVE  /\ added'[d] # NoFuture /\ Done(added[d])' /\ d \notin removed'
                   /\ scheduled'[d] = 0 /\ d \notin dropped'
        <5>1. CASE d = c
          BY <2>0, <2>1, <2>2, <5>1
        <5>2. CASE d # c
          <6>1. d \in Carried(u) /\ d \in Callbacks
            BY <3>1, <4>2, <5>2, CarriedTyped
          <6> QED
            BY <2>0, <5>2, <6>1 DEF CarriedApart
        <5> QED
          BY <5>1, <5>2
      <4>3. \A u, v \in Threads : u # v => Carried(u)' \cap Carried(v)' = {}
        BY <2>1, <3>1 DEF CarriedApart
      <4> QED
        BY <4>2, <4>3 DEF CarriedApart
    <3>4. NoneLost'
      <4> SUFFICES ASSUME NEW d \in Callbacks
                   PROVE  /\ added'[d] = NoFuture => scheduled[d] = 0
                          /\ d \in removed => added'[d] # NoFuture /\ scheduled[d] = 0
                          /\ d \in dropped => added'[d] # NoFuture /\ Done(added'[d]) /\ scheduled[d] = 0
                          /\ scheduled[d] \in 0 .. 1
                          /\ added'[d] # NoFuture /\ d \notin removed
                               => \/ d \in Content(callbacks[added'[d]])
                                  \/ \E u \in Threads : d \in Carried(u)'
                                  \/ scheduled[d] = 1
                                  \/ d \in dropped
        BY <2>0, <2>2 DEF NoneLost
      <4>1. CASE d = c
        <5>1. c \in Carried(t)'
          BY <2>0, <2>2
        <5> QED
          BY <2>0, <2>1, <4>1, <5>1
      <4>2. CASE d # c
        <5>1. \A u \in Threads : d \in Carried(u) => d \in Carried(u)'
          BY <3>1
        <5> QED
          BY <2>0, <4>2, <5>1 DEF NoneLost
      <4> QED
        BY <4>1, <4>2
    <3>5. CallbacksHeld'
      BY <2>0, <2>2, <2>a, <3>1 DEF CallbacksHeld, OthersAlone
    <3> QED
      BY <3>2, <3>3, <3>4, <3>5
  <2>3. CASE ~Done(f)
    <3>1. \A u \in Threads : Carried(u)' = Carried(u)
      BY <2>0, <2>3 DEF OthersAlone
    <3>2. /\ \A g \in Futs : g # f => callbacks'[g] = callbacks[g]
          /\ Content(callbacks'[f]) = Content(callbacks[f]) \cup {c}
          /\ Once(callbacks'[f])
      <4>1. callbacks[f] \in Seq(Callbacks) /\ Once(callbacks[f])
        BY DEF Typed, ListsApart
      <4>2. callbacks'[f] = Append(callbacks[f], c)
        BY <2>0, <2>3 DEF Typed
      <4>3. \A g \in Futs : g # f => callbacks'[g] = callbacks[g]
        BY <2>0, <2>3 DEF Typed
      <4> QED
        BY <2>1, <4>1, <4>2, <4>3, AppendContent
    <3>3. ListsApart'
      BY <2>0, <2>1, <2>3, <3>2, ListTyped DEF ListsApart
    <3>4. CarriedApart'
      BY <2>0, <2>1, <3>1, CarriedTyped DEF CarriedApart
    <3>5. NoneLost'
      <4> SUFFICES ASSUME NEW d \in Callbacks
                   PROVE  /\ added'[d] = NoFuture => scheduled[d] = 0
                          /\ d \in removed => added'[d] # NoFuture /\ scheduled[d] = 0
                          /\ d \in dropped => added'[d] # NoFuture /\ Done(added'[d]) /\ scheduled[d] = 0
                          /\ scheduled[d] \in 0 .. 1
                          /\ added'[d] # NoFuture /\ d \notin removed
                               => \/ d \in Content(callbacks'[added'[d]])
                                  \/ \E u \in Threads : d \in Carried(u)'
                                  \/ scheduled[d] = 1
                                  \/ d \in dropped
        BY <2>0 DEF NoneLost
      <4>1. CASE d = c
        BY <2>0, <2>1, <3>2, <4>1
      <4>2. CASE d # c
        <5>1. added[d] # NoFuture => added[d] \in Futs
          BY DEF Typed
        <5> QED
          BY <2>0, <3>1, <3>2, <4>2, <5>1 DEF NoneLost
      <4> QED
        BY <4>1, <4>2
    <3>6. CallbacksHeld'
      BY <2>0, <2>3, <3>1 DEF CallbacksHeld
    <3> QED
      BY <3>3, <3>4, <3>5, <3>6
  <2> QED
    BY <2>2, <2>3
<1>5. ASSUME NEW t \in Threads, NEW f \in Futs, NEW c \in Callbacks, RemoveDoneCallback(t, f, c)
      PROVE  CallbackInv'
  <2>1. PICK i \in 1 .. Len(callbacks[f]) :
          callbacks[f][i] = c /\ callbacks' = [callbacks EXCEPT ![f] = RemoveAt(callbacks[f], i)]
    BY <1>5 DEF RemoveDoneCallback
  <2>2. callbacks[f] \in Seq(Callbacks) /\ Once(callbacks[f])
    BY DEF Typed, ListsApart
  <2>3. Content(RemoveAt(callbacks[f], i)) = Content(callbacks[f]) \ {c} /\ Once(RemoveAt(callbacks[f], i))
    BY <2>1, <2>2, CutContent DEF RemoveAt
  <2>4. /\ \A g \in Futs : g # f => callbacks'[g] = callbacks[g]
        /\ Content(callbacks'[f]) = Content(callbacks[f]) \ {c} /\ Once(callbacks'[f])
    BY <2>1, <2>3 DEF Typed
  <2>5. c \in Content(callbacks[f])
    BY <2>1 DEF Content
  <2>6. added[c] = f /\ ~Done(f) /\ scheduled[c] = 0
    BY <2>5 DEF ListsApart
  <2>7. UNCHANGED <<state, added, scheduled, dropped, heldBy, closed, th, pending>>
        /\ removed' = removed \cup {c}
    BY <1>5 DEF RemoveDoneCallback
  <2>8. \A u \in Threads : Carried(u)' = Carried(u)
    BY <2>7, QuietEffect
  <2>9. ListsApart'
    BY <2>4, <2>6, <2>7 DEF ListsApart
  <2>10. CarriedApart'
    BY <2>6, <2>7, <2>8 DEF CarriedApart
  <2>11. NoneLost'
    <3> SUFFICES ASSUME NEW d \in Callbacks
                 PROVE  /\ d \in removed' => added[d] # NoFuture /\ scheduled[d] = 0
                        /\ added[d] # NoFuture /\ d \notin removed'
                             => \/ d \in Content(callbacks'[added[d]])
                                \/ \E u \in Threads : d \in Carried(u)'
                                \/ scheduled[d] = 1
                                \/ d \in dropped
      BY <2>7 DEF NoneLost
    <3>1. CASE d = c
      BY <2>6, <2>7, <3>1
    <3>2. CASE d # c
      <4>1. added[d] # NoFuture => added[d] \in Futs
        BY DEF Typed
      <4> QED
        BY <2>4, <2>7, <2>8, <3>2, <4>1 DEF NoneLost
    <3> QED
      BY <3>1, <3>2
  <2>12. CallbacksHeld'
    BY <2>7, <2>8 DEF CallbacksHeld
  <2> QED
    BY <2>9, <2>10, <2>11, <2>12
<1>7. ASSUME NEW t \in Threads, Leave(t) PROVE CallbackInv'
  <2>1. \A u \in Threads : Carried(u)' = Carried(u)
    BY <1>7, LeaveEffect DEF OthersAlone, Carried
  <2>2. \A u \in Threads : heldBy'[u] \in {heldBy[u], {}}
    BY <1>7 DEF Leave, Typed
  <2> QED
    BY <1>7, <1>a, <2>1, <2>2 DEF Leave
<1>8. ASSUME NEW t \in Threads, Flush(t) PROVE CallbackInv'
  <2>0. /\ OthersAlone(t) /\ th[t].pc = "flush"
        /\ UNCHANGED <<state, callbacks, added, removed, dropped, heldBy, closed>>
    BY <1>8, FlushEffect DEF Flush
  <2>1. CASE Carried(t)' = Carried(t) /\ UNCHANGED scheduled
    <3>1. \A u \in Threads : Carried(u)' = Carried(u)
      BY <2>0, <2>1 DEF OthersAlone
    <3> QED
      BY <1>a, <2>0, <2>1, <3>1
  <2>2. ASSUME NEW c \in Carried(t), Carried(t)' = Carried(t) \ {c},
               scheduled' = [scheduled EXCEPT ![c] = @ + 1]
        PROVE  CallbackInv'
    <3>1. depth[t] = 0
      BY <2>0 DEF RegionsHold, At
    <3> QED
      BY <1>b, <2>0, <2>2, <3>1
  <2> QED
    BY <1>8, <2>1, <2>2, FlushEffect
<1>c. ASSUME UNCHANGED <<state, callbacks, cbVars, th, pending, heldBy>>, closed => closed'
      PROVE  CallbackInv'
  <2>1. \A u \in Threads : Carried(u)' = Carried(u)
    BY <1>c, QuietEffect
  <2> QED
    BY <1>a, <1>c, <2>1
<1>6. ASSUME NEW t \in Threads, Enter(t) PROVE CallbackInv'
  BY <1>6, <1>c DEF Enter
<1>9. ASSUME NEW a \in Awaiters, NEW f \in Futs, Await(a, f) PROVE CallbackInv'
  BY <1>9, <1>c DEF Await
<1>10. ASSUME NEW a \in Awaiters, Resume(a) PROVE CallbackInv'
  BY <1>10, <1>c DEF Resume
<1>11. ASSUME NEW a \in Awaiters, Read(a) PROVE CallbackInv'
  BY <1>11, <1>c DEF Read
<1>12. CASE UNCHANGED vars
  BY <1>12, <1>c
<1>13. CASE Close
  BY <1>13, <1>c DEF Close
<1> QED
  BY <1>1, <1>2, <1>3, <1>4, <1>5, <1>6, <1>7, <1>8, <1>9, <1>10, <1>11, <1>12, <1>13
     DEF Next, Continue
-----------------------------------------------------------------------------
\* The invariant.

LEMMA IInvInit == Init => IInv
<1> SUFFICES ASSUME Init PROVE IInv
  OBVIOUS
<1>1. Content(<<>>) = {} /\ Once(<<>>)
  BY SmallContent
<1>2. Typed
  <2>1. th \in [Threads -> ThreadStates] /\ aw \in [Awaiters -> AwaiterStates]
    BY DEF Init, Idle, ThreadStates, AwaiterStates
  <2>2. dropped \subseteq Callbacks /\ closed \in BOOLEAN
    BY Zenon DEF Init
  <2>3. pending \in [Threads -> Seq(Wakes)]
    <3>1. <<>> \in Seq(Wakes)
      OBVIOUS
    <3> QED
      BY <3>1 DEF Init
  <2>4. heldBy \in [Threads -> SUBSET Wakes]
    BY DEF Init
  <2> QED
    BY <2>1, <2>2, <2>3, <2>4, DepthAssumption DEF Init, Typed
<1>3. \A t \in Threads : Owed(t) = {} /\ Hand(t) = {} /\ Late(t) = {} /\ Carried(t) = {}
  BY <1>1 DEF Init, Owed, Hand, Late, Carried, Waiting, At, Idle
<1>4. EventsFollow /\ WakesKept /\ RegionsHold
  BY <1>3 DEF Init, EventsFollow, WakesKept, RegionsHold, Done, At, Idle
<1>5. ListsApart /\ CarriedApart /\ NoneLost /\ CallbacksHeld
  BY <1>1, <1>3 DEF Init, ListsApart, CarriedApart, NoneLost, CallbacksHeld
<1>6. PlacesOnce
  BY <1>1, <1>3 DEF Init, PlacesOnce, At, Idle
<1> QED
  BY <1>2, <1>4, <1>5, <1>6 DEF IInv

LEMMA IInvStep == IInv /\ [Next]_vars => IInv'
<1> SUFFICES ASSUME IInv, [Next]_vars PROVE IInv'
  OBVIOUS
<1>1. Typed' /\ WakeInv'
  BY TypedStep, WakeInvStep DEF IInv, WakeInv
<1>2. PlacesOnce' /\ CallbackInv'
  BY PlacesOnceStep, CallbackInvStep
<1> QED
  BY <1>1, <1>2 DEF IInv, WakeInv, CallbackInv

LEMMA IInvHolds == Spec => []IInv
  BY IInvInit, IInvStep, PTL DEF Spec

\* What is typed in full is typed; no callback was scheduled twice.
LEMMA IInvTypes == IInv => TypeOK
  BY Shapes DEF IInv, Typed, NoneLost, TypeOK

\* Counting in a sequence that has each element once.
LEMMA CountOnce ==
  ASSUME NEW S, NEW s \in Seq(S), NEW c, Once(s)
  PROVE  Count(c, s) = IF c \in Content(s) THEN 1 ELSE 0
<1>1. CASE c \notin Content(s)
  <2>1. {i \in DOMAIN s : s[i] = c} = {}
    BY <1>1 DEF Content
  <2> QED
    BY <1>1, <2>1, FS_EmptySet DEF Count
<1>2. CASE c \in Content(s)
  <2>1. PICK i \in 1 .. Len(s) : s[i] = c
    BY <1>2 DEF Content
  <2>2. {j \in DOMAIN s : s[j] = c} = {i}
    BY <2>1 DEF Once
  <2> QED
    BY <1>2, <2>2, FS_Singleton DEF Count
<1> QED
  BY <1>1, <1>2

\* The threads CallbackOnce counts.
LEMMA PlacesCounted ==
  ASSUME IInv, NEW c \in Callbacks
  PROVE  /\ InHand(c) = {t \in Threads : c \in Hand(t)}
         /\ Deferred(c) = {t \in Threads : c \in Late(t)}
<1>1. ASSUME NEW t \in Threads
      PROVE  /\ th[t].pc \in {"wake", "callbacks"} => ToSet(th[t].cbs) = Content(th[t].cbs)
             /\ ToSet(pending[t]) = Content(pending[t])
             /\ At(t, "flush") => ToSet(th[t].wakes) = Content(th[t].wakes)
  <2>1. th[t].pc \in {"wake", "callbacks"} => th[t].cbs \in Seq(Callbacks)
    BY Shapes DEF IInv, At
  <2>2. pending[t] \in Seq(Wakes) /\ (At(t, "flush") => th[t].wakes \in Seq(Wakes))
    BY Shapes DEF IInv, Typed
  <2> QED
    BY <2>1, <2>2, ToSetContent
<1>2. InHand(c) = {t \in Threads : c \in Hand(t)}
  BY <1>1 DEF InHand, Hand
<1>3. Deferred(c) = {t \in Threads : c \in Late(t)}
  BY <1>1 DEF Deferred, Late, Waiting
<1> QED
  BY <1>2, <1>3

LEMMA IInvCallbackOnce == IInv => CallbackOnce
<1> SUFFICES ASSUME IInv PROVE CallbackOnce
  OBVIOUS
<1>c. dropped # {} => closed
  BY DEF IInv, CallbacksHeld
<1>d. ASSUME NEW c \in Callbacks
      PROVE  LET listed == IF added[c] = NoFuture THEN 0 ELSE Count(c, callbacks[added[c]]) IN
             /\ listed + Cardinality(InHand(c)) + Cardinality(Deferred(c)) + scheduled[c]
                  = IF added[c] = NoFuture \/ c \in removed \cup dropped THEN 0 ELSE 1
             /\ listed = 1 => ~Done(added[c])
  <2> DEFINE listed == IF added[c] = NoFuture THEN 0 ELSE Count(c, callbacks[added[c]])
  <2>0. scheduled[c] \in 0 .. 1 /\ (added[c] # NoFuture => added[c] \in Futs)
    BY DEF IInv, Typed, NoneLost
  <2>1. ASSUME added[c] # NoFuture
        PROVE  listed = IF c \in Content(callbacks[added[c]]) THEN 1 ELSE 0
    <3>1. callbacks[added[c]] \in Seq(Callbacks) /\ Once(callbacks[added[c]])
      BY <2>0, <2>1 DEF IInv, Typed, ListsApart
    <3>2. Count(c, callbacks[added[c]]) = IF c \in Content(callbacks[added[c]]) THEN 1 ELSE 0
      BY <3>1, CountOnce
    <3> QED
      BY <2>1, <3>2
  <2>2. CASE \E t \in Threads : c \in Carried(t)
    <3>1. PICK t \in Threads : c \in Carried(t)
      BY <2>2
    <3>2. /\ added[c] # NoFuture /\ Done(added[c]) /\ c \notin removed /\ scheduled[c] = 0
          /\ c \notin dropped /\ \A u \in Threads : c \in Carried(u) => u = t
      BY <3>1 DEF IInv, CarriedApart
    <3>3. \/ InHand(c) = {t} /\ Deferred(c) = {}
          \/ InHand(c) = {} /\ Deferred(c) = {t}
      BY <3>1, <3>2, PlacesCounted DEF Carried, IInv, PlacesOnce
    <3>4. \/ Cardinality(InHand(c)) = 1 /\ Cardinality(Deferred(c)) = 0
          \/ Cardinality(InHand(c)) = 0 /\ Cardinality(Deferred(c)) = 1
      <4>1. Cardinality({t}) = 1 /\ Cardinality({}) = 0
        BY FS_Singleton, FS_EmptySet
      <4> QED
        BY <3>3, <4>1
    <3>5. c \notin Content(callbacks[added[c]])
      BY <2>0, <3>2 DEF IInv, ListsApart
    <3> QED
      BY <2>0, <2>1, <3>2, <3>4, <3>5
  <2>3. CASE \A t \in Threads : c \notin Carried(t)
    <3>1. InHand(c) = {} /\ Deferred(c) = {}
      BY <2>3, PlacesCounted DEF Carried
    <3>2. Cardinality(InHand(c)) = 0 /\ Cardinality(Deferred(c)) = 0
      BY <3>1, FS_EmptySet
    <3>3. CASE added[c] = NoFuture
      BY <3>2, <3>3 DEF IInv, NoneLost
    <3>4. ASSUME added[c] # NoFuture, c \in Content(callbacks[added[c]])
          PROVE  ~Done(added[c]) /\ c \notin removed /\ scheduled[c] = 0 /\ c \notin dropped
      <4>1. ~Done(added[c]) /\ c \notin removed /\ scheduled[c] = 0
        BY <2>0, <3>4 DEF IInv, ListsApart
      <4> QED
        BY <4>1 DEF IInv, NoneLost
    <3>5. ASSUME added[c] # NoFuture, c \notin Content(callbacks[added[c]])
          PROVE  scheduled[c] = IF c \in removed \cup dropped THEN 0 ELSE 1
      BY <2>3, <3>5 DEF IInv, NoneLost
    <3> QED
      BY <2>0, <2>1, <3>2, <3>3, <3>4, <3>5
  <2> QED
    BY <2>2, <2>3
<1> QED
  BY <1>c, <1>d DEF CallbackOnce
-----------------------------------------------------------------------------
\* The theorems.

\* Type correctness.  With it: an awaiter that reads the future finds its outcome and
\* never the InvalidStateError of _read, and no callback is scheduled a second time.
THEOREM TypeCorrect == Spec => []TypeOK
  BY IInvHolds, IInvTypes, PTL

\* Every callback that add_done_callback accepts and remove_done_callback does not take
\* out is in exactly one place, the list of its pending future, the hand of the one
\* thread that completed it, the pending list of that thread's region or the runtime's
\* queue, and gets to the queue exactly once, whichever threads complete, add and remove
\* at the same time; only a closed loop refuses one.
THEOREM CallbacksRunOnce == Spec => []CallbackOnce
  BY IInvHolds, IInvCallbackOnce, PTL

\* No awaiter is woken and no done callback queued by a future completed inside a
\* defer_wakes region that the completing thread has not left altogether, however deep
\* the regions nest.
THEOREM WakesAreHeld == Spec => []HeldUntilRegionEnds
<1>1. IInv => HeldUntilRegionEnds
  <2> SUFFICES ASSUME IInv, NEW t \in Threads
               PROVE  /\ \A f \in heldBy[t] \cap Futs : ~event[f]
                      /\ \A c \in heldBy[t] \cap Callbacks : scheduled[c] = 0
    BY DEF HeldUntilRegionEnds
  <2>1. \A f \in heldBy[t] \cap Futs : ~event[f]
    BY DEF IInv, RegionsHold
  <2>2. \A c \in heldBy[t] \cap Callbacks : scheduled[c] = 0
    BY DEF IInv, CallbacksHeld, CarriedApart, NoneLost
  <2> QED
    BY <2>1, <2>2
<1> QED
  BY <1>1, IInvHolds, PTL

\* A held wake is never lost: as long as the event of a completed future is not set,
\* some thread still has it to set, and it is in the pending list of a thread only
\* while that thread is inside a region, whose end takes it out.
THEOREM WakesAreKept == Spec => []WakesKept
<1>1. IInv => WakesKept
  BY DEF IInv
<1> QED
  BY <1>1, IInvHolds, PTL
=============================================================================
