\* Two threads, three condition variables, and two callers, of which either
\* may stop or destroy the pool at any time; three jobs, one more than there
\* are threads. An idle worker leaves after its second time-out, and threads
\* may fail to come up. No symmetry: there are liveness properties.
CONSTANTS
  Workers = {w1, w2, w3}
  Callers = {c1, c2}
  Jobs = {j1, j2, j3}
  NoJob = NoJob
  NoWorker = NoWorker
  Limit = 2
  WaitCount = 2
  MayFail = TRUE
SPECIFICATION FairSpec
INVARIANTS Accounts StartedOnce NoLostWakeup
PROPERTIES StopDrains JobsRun StopReturns
CHECK_DEADLOCK FALSE
