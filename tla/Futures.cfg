SPECIFICATION FairSpec
CONSTANTS
  Threads = {t1, t2}
  Futs = {f1, f2}
  Callbacks = {b1}
  Awaiters = {a1}
  MaxDepth = 2
  NoFuture = NoFuture
INVARIANTS CallbackOnce HeldUntilRegionEnds
PROPERTIES AwaiterResumes
