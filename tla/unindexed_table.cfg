\* One process, killed and started again.
SPECIFICATION Spec
CONSTANTS
  w1 = w1  w2 = w2  c1 = c1  c2 = c2
  Unknown = Unknown
  Workers = {w1}
  Calls = {c1}
  Debug = FALSE
  ReplyFirst = FALSE
INVARIANT ServesWithIndexes
