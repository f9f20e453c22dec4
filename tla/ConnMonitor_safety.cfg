\* One address, which may lose its pool and get another, and two checks, so
\* that both may be under way at a time; a service of every kind.
CONSTANTS
  Addrs = {a1}
  NoAddr = NoAddr
  Checkers = {k1, k2}
  NoChecker = NoChecker
  Workers = {w1, w2}
  Modes = {"none", "pool", "detached"}
SPECIFICATION FairSpec
INVARIANTS CheckerKept StopClean OneCheckPerAddr
PROPERTIES Noticed StopReturns
CHECK_DEADLOCK FALSE
