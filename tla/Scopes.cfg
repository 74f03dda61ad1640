SPECIFICATION FairSpec
CONSTANTS
  k1 = k1
  k2 = k2
  o1 = o1
  Kids = {k1, k2}
  Outsiders = {o1}
  Timer = Timer
  Self = Self
  Cancellers = {k1, k2, o1, Timer, Self}
  Body = b
  After = a
  Futs = {b, a, w1, w2, w3, w4}
  Completable = {b}
  NoFuture = NoFuture
  Apps <- MCApps
INVARIANTS MissedOnlyWhenMoved CancelContained GroupJoinsAll
PROPERTIES CancelHitsTheAwait GroupExits
