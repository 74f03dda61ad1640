SPECIFICATION CombFairSpec
CONSTANTS
  k1 = k1
  k2 = k2
  k3 = k3
  Kids = {k1, k2, k3}
  Apps <- MCApps
INVARIANTS NotEarly CleanExit
PROPERTIES CallerReturns
CHECK_DEADLOCK FALSE
