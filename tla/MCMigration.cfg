SPECIFICATION Spec
CONSTANTS
  None = None
  Torn = Torn
  Opener = {o1, o2}
  Found <- MCFound
  MaxAborts = 2
INVARIANTS
  LegacyKept
  NoMixedGenerations
  ServesTheMainFile
PROPERTIES
  RefinesAtomicStore
