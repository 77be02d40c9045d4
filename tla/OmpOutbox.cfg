SPECIFICATION FairSpec
CONSTANTS
  Call = {c1, c2}
  None = None
CHECK_DEADLOCK FALSE
INVARIANTS
  KeptUntilSettled
  OutcomeIsTheCallsOwn
PROPERTIES
  TerminalsAreDelivered
