SPECIFICATION Spec
CONSTANTS
  t1 = t1
  t2 = t2
  t3 = t3
  Tasks = {t1, t2, t3}
  Cancellers = {c1, c2}
  Apps <- MCApps
  None = None
INVARIANTS WaiterIsListed WakesSuffice LockHasOneOwner
PROPERTIES JoinNotEarly
SYMMETRY MCSymmetry
