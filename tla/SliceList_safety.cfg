\* Two slices, two threads, a command that fails or is repeated.
CONSTANTS
  Threads = {t1, t2}
  SliceNum = 2
  EmptyElems = FALSE
  MaxElems = 2
  MaxCalls = 2
  MaxFaults = 1
SPECIFICATION FairSpec
INVARIANTS DeliveredOnce
PROPERTIES NoDataMeansTaken LengthPlausible CallEnds
