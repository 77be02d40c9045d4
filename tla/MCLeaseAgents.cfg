SPECIFICATION Spec
CONSTANTS
  a1 = a1
  a2 = a2
  a3 = a3
  t1 = t1
  t2 = t2
  t3 = t3
  d = d
  f = f
  g = g
  None = None
  Task = {t1, t2, t3}
  Agent = {a1, a2, a3}
  Resource = {d, f, g}
  Attempt = {x1}
  Owner <- MCSharedOwner
  Overlap <- MCOverlap
  WriteSets <- MCTreeSets
  OfferTtl = 1
  InactivityTimeout = 1
  LeaseExpiry = 1
  AttemptWindow = 1
  MaxLag = 0
  MaxClock = 1
  MaxRequests = 3
SYMMETRY MCSharedSymmetry
VIEW MCView
INVARIANTS
  OneBatchPerAgent
  OnePendingPerTask
  NoMissedPromotion
