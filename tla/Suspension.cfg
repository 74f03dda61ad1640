SPECIFICATION SuspFairSpec
CONSTANTS
  c1 = c1
  c2 = c2
  e1 = e1
  e2 = e2
  Coros = {c1, c2}
  Events = {e1, e2}
  Agents = {t1, t2}
  Programs <- All
  MaxWaits = 2
  Nobody = Nobody
INVARIANTS OneResume ParkedIsWatched
PROPERTIES SuspensionResumes
