SPECIFICATION FairSpec
CHECK_DEADLOCK FALSE
CONSTANTS
  l1 = l1
  l2 = l2
  Loops = {l1, l2}
  Callers = {c1}
  MaxStarts = 4
  Apps <- All
  None = None
  Names = 3
  Present = {1, 3}
CONSTRAINT Calm
INVARIANTS HeldRuntimeRuns NamesRestored
PROPERTIES RunReturns RuntimeStops
