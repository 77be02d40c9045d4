SPECIFICATION Spec
CONSTANTS
  a1 = a1
  a2 = a2
  a3 = a3
  t1 = t1
  t2 = t2
  t3 = t3
  d = d
  f = f
  g = g
  None = None
  Task = {t1, t3}
  Agent = {a1, a2, a3}
  Resource = {d, f, g}
  Attempt = {x1, x2}
  Owner <- MCSharedOwner
  Overlap <- MCOverlap
  WriteSets <- MCFileSets
  OfferTtl = 1
  InactivityTimeout = 1
  LeaseExpiry = 1
  AttemptWindow = 1
  MaxLag = 0
  MaxClock = 2
  MaxRequests = 2
SYMMETRY MCAttemptSymmetry
VIEW MCView
PROPERTIES
  UncertainLeaseStays
