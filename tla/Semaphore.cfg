SPECIFICATION FairSpec
CONSTANTS
  Tasks = {t1, t2, t3}
  Cancellers = {c1, c2}
  Permits = 1
  MaxAcquires = 4
  None = None
INVARIANTS PermitsAccounted NoIdlePermit
PROPERTIES WaiterServed
