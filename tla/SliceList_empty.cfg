\* Empty strings in a vector.
CONSTANTS
  Threads = {t1, t2}
  SliceNum = 2
  EmptyElems = TRUE
  MaxElems = 1
  MaxCalls = 1
  MaxFaults = 0
SPECIFICATION Spec
PROPERTY TakenIsReturned
