\* Three nodes that die and revive: the turns of peek, which do not look at the
\* connections (nobody borrows one).
CONSTANTS
  Threads = {t1, t2}
  Addrs = {a, b, c}
  NoAddr = NoAddr
  NoThread = NoThread
  Configured = {a, b, c}
  Default = NoAddr
  Asserts = TRUE
  Ops <- TurnOps
  MaxPools = 3
  Cycle = 6
  MaxConns = 0
SPECIFICATION Spec
INVARIANTS OnePoolPerAddr EvenTurns
PROPERTY LivePoolFound
SYMMETRY Symmetry
