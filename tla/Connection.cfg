SPECIFICATION ConnFairSpec
CONSTANTS
  t1 = t1
  t2 = t2
  Tasks = {t1, t2}
  ConnApps <- All
  Nobody = Nobody
  Addresses = {a1, a2}
  Callers = {c1, c2}
  Client = conn
CHECK_DEADLOCK FALSE
INVARIANTS WireOrder ReleasedWithSocket NoEmptyRead ServerDrains
PROPERTIES ReadStandsAside 
