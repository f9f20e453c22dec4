\* One reply of a length that takes one place more than it has chunks of
\* Chunk bytes, asked for in slices: the claim of a whole value.
CONSTANTS
  Password = FALSE
  Db = 0
  Retry = FALSE
  CheckAddr = FALSE
  Chunk = 5
  Lengths = {4, 5, 6}
  MaxCmds = 1
  MaxDepth = 1
SPECIFICATION Spec
INVARIANT ReplyWhole
