\* A password, a database, retry: three calls over a connection that is cut at
\* any point, with replies of every length up to five pieces. States with more
\* than MaxDepth calls nested are looked at and not continued.
CONSTANTS
  Password = TRUE
  Db = 1
  Retry = TRUE
  CheckAddr = TRUE
  Chunk = 5
  Lengths <- ReplyLengths
  MaxCmds = 3
  MaxDepth = 4
SPECIFICATION FairSpec
INVARIANTS ReplyMatches WrittenRight ReplyKept NullMeansEof
PROPERTY CallReturns
CONSTRAINT Shallow
