SPECIFICATION ESpec
CONSTANTS
  a1 = a1
  a2 = a2
  t1 = t1
  t2 = t2
  d = d
  f = f
  None = None
  Task = {t1, t2}
  Agent = {a1, a2}
  Resource = {d, f}
  Attempt = {x1, x2}
  Content = {c0, c1}
  Owner <- MCOwner
  Under <- MCUnder
  Overlap <- MCOverlap
  Target <- MCTarget
  WriteSets <- MCWriteSets
  OfferTtl = 1
  InactivityTimeout = 1
  LeaseExpiry = 1
  AttemptWindow = 1
  MaxLag = 0
  MaxClock = 0
  MaxRequests = 2
SYMMETRY MCSymmetry
VIEW MCView
CHECK_DEADLOCK FALSE
INVARIANTS
  EvidenceIsCurrent
  NoEvidenceUnderWrites
PROPERTIES
  NoLostUpdate
