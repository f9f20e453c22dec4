\* Two threads, one connection allowed beyond the one a caller binds, idle
\* connections that expire after one tick and a check due on every tick. No
\* symmetry: LastPutDestroys is a liveness property.
CONSTANTS
  Threads = {t1, t2}
  Conns = {c1, c2, c3}
  Foreign = {c3}
  NoConn = NoConn
  Max = 1
  IdleTtl = 1
  CheckTtls = {1}
  CheckInter = 1
  RetryInter = 1
  StatInter = 1
  Epoch = 1
  EndTime = 2
  MaxUsed = 3
  Word = 8
SPECIFICATION FairSpec
INVARIANTS TypeOK CountExact PoolSound
PROPERTIES RevivedOnlyAfterRetry ImplementsLease LastPutDestroys
CHECK_DEADLOCK FALSE
