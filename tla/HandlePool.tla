----------------------------- MODULE HandlePool -----------------------------
(***************************************************************************)
(* What the runtime promises about handles, whatever its queues do: a      *)
(* handle that is pushed is run once, by one worker, at most Capacity      *)
(* handles run at a time, and until the workers are told to stop every     *)
(* pushed handle gets its turn.                                            *)
(***************************************************************************)
EXTENDS Naturals, FiniteSets

CONSTANTS Items,      \* the handles
          Capacity    \* how many can run at a time

VARIABLES status,     \* what has become of each handle
          halted      \* the workers have been told to stop

poolVars == <<status, halted>>

InState(s) == {h \in Items : status[h] = s}

PoolInit ==
  /\ status \in [Items -> {"fresh", "queued"}]
  /\ halted = FALSE

Move(h, from, to) ==
  /\ status[h] = from
  /\ status' = [status EXCEPT ![h] = to]
  /\ UNCHANGED halted

Submit(h) == Move(h, "fresh", "queued")
Take(h)   == Move(h, "queued", "running") /\ Cardinality(InState("running")) < Capacity
Return(h) == Move(h, "running", "done")
Halt      == halted' = TRUE /\ UNCHANGED status

PoolNext == Halt \/ \E h \in Items : Submit(h) \/ Take(h) \/ Return(h)

\* What it may do, and what it must do as well.
PoolSafety == PoolInit /\ [][PoolNext]_poolVars

PoolSpec ==
  /\ PoolSafety
  /\ \A h \in Items : WF_poolVars(~halted /\ Take(h)) /\ WF_poolVars(Return(h))
=============================================================================
