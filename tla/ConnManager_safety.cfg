\* Three callers share the two connections of one node's pool, which is looked for,
\* removed and made again, from an empty manager.
CONSTANTS
  Threads = {t1, t2, t3}
  Addrs = {a}
  NoAddr = NoAddr
  NoThread = NoThread
  Configured = {}
  Default = NoAddr
  Asserts = TRUE
  Ops <- TableOps
  MaxPools = 3
  Cycle = 1
  MaxConns = 2
SPECIFICATION Spec
INVARIANT OnePoolPerAddr
PROPERTY DeletedUnused
SYMMETRY Symmetry
