SPECIFICATION BlockingFairSpec
CONSTANTS
  Submitters = {c1, c2}
  Slots = {w1, w2, w3}
  Tasks = {k1, k2, k3}
  tmax = 2
  MaxTimeouts = 2
  NoTask = NoTask
INVARIANTS ThreadsBounded
PROPERTIES ImplementsPool
